---- MODULE Spec2Model ----
(***************************************************************************)
(* Pocket Money Tracker: the JSON-backed ledger (DataManager), the entry   *)
(* handlers of the kid details view (KidDetailsView, EditEntryDialog) and  *)
(* the totals fold (DataManager._calculate_totals), and the period         *)
(* calendar (PeriodHelper, PeriodSelectorWidget).                          *)
(*                                                                         *)
(* Numbers.  Python floats are modelled by exact fixed-point integers: one *)
(* currency unit is 100 * PerCent model units, so a cent is PerCent units  *)
(* and four further decimal digits are kept below the cent.  Percentages   *)
(* and interest rates are whole percents.  The input sets are chosen so    *)
(* that every product amount * pct / 100 that the model reaches is exact   *)
(* (ExactArithmetic below).  float() also reads the text "nan": NaN is the  *)
(* one non-finite number of the model; arithmetic on it gives NaN and every *)
(* ordering comparison with it is false.                                    *)
(*                                                                         *)
(* Strings.  A period key is the sequence of its characters, each a        *)
(* one-character string; Ord gives the code point Python compares by.      *)
(***************************************************************************)
EXTENDS Integers, Sequences, FiniteSets, TLC

VARIABLES
    data,       \* the content of data/data.json: [kids, settings]
    call,       \* the last DataManager call / UI handler run and its outcome
    kidIn,      \* the kid record handed to _calculate_totals (SpecTotals)
    totalsOut,  \* what _calculate_totals returned for kidIn, <<>> before the call
    selector    \* a PeriodSelectorWidget: [period_type, current_period]

vars == <<data, call, kidIn, totalsOut, selector>>

---------------------------------------------------------------------------
(* Bounds of the model *)

\* total number of entries in the dataset that add_entry is called up to
MaxEntries == 2

---------------------------------------------------------------------------
(* Numbers *)

\* model units per cent: round(x, 2) keeps whole multiples of PerCent
PerCent == 100 * 100

\* e currency units and c cents, in model units
Eur(e, c) == (e * 100 + c) * PerCent

Abs(x) == IF x < 0 THEN -x ELSE x

Min(S) == CHOOSE x \in S : \A y \in S : x <= y

\* float("nan"), a value no finite number of the model takes
NaN == 0 - (2^30 + 1)

\* a < b, a <= b and a > b on floats: false when an operand is NaN
Lt(a, b) == a # NaN /\ b # NaN /\ a < b
Le(a, b) == a # NaN /\ b # NaN /\ a <= b
Gt(a, b) == a # NaN /\ b # NaN /\ a > b

\* a + b and a - b on floats
Plus(a, b) == IF a = NaN \/ b = NaN THEN NaN ELSE a + b
Minus(a, b) == IF a = NaN \/ b = NaN THEN NaN ELSE a - b

\* x * p / 100 (the float product and quotient of the source), split so that
\* no intermediate value leaves the 32-bit range
PctOf(x, p) == IF x = NaN THEN NaN ELSE (x \div 100) * p + ((x % 100) * p) \div 100

\* x * p / 100 loses nothing in model units
PctExact(x, p) == ((x % 100) * p) % 100 = 0

\* Python's round(x, 2): to the nearest cent, an exact tie to the even cent
Round2(x) ==
    LET q == x \div PerCent
        r == x % PerCent
    IN  IF x = NaN THEN NaN
        ELSE IF 2 * r < PerCent THEN q * PerCent
        ELSE IF 2 * r > PerCent THEN (q + 1) * PerCent
        ELSE IF q % 2 = 0 THEN q * PerCent
        ELSE (q + 1) * PerCent

---------------------------------------------------------------------------
(* Period keys *)

\* code point of a character of a period key
Ord(c) ==
    CASE c = "-" -> 45
      [] c = "0" -> 48 [] c = "1" -> 49 [] c = "2" -> 50 [] c = "3" -> 51
      [] c = "4" -> 52 [] c = "5" -> 53 [] c = "6" -> 54 [] c = "7" -> 55
      [] c = "8" -> 56 [] c = "9" -> 57
      [] c = "B" -> 66 [] c = "Q" -> 81 [] c = "W" -> 87

DigitChar(d) == <<"0", "1", "2", "3", "4", "5", "6", "7", "8", "9">>[d + 1]

\* f"{n}": the decimal digits of n >= 0
RECURSIVE Dec(_)
Dec(n) == IF n < 10 THEN <<DigitChar(n)>>
          ELSE Dec(n \div 10) \o <<DigitChar(n % 10)>>

\* f"{n:02d}": at least two digits, zero padded
Dec02(n) == IF n < 10 THEN <<"0">> \o Dec(n) ELSE Dec(n)

\* get_period_key writing the week, biweek and month without zero padding
get_period_key_unpadded(period) ==
    IF period.type = "weekly"
    THEN Dec(period.year) \o <<"-", "W">> \o Dec(period.idx)
    ELSE IF period.type = "biweekly"
    THEN Dec(period.year) \o <<"-", "B", "W">> \o Dec(period.idx)
    ELSE IF period.type = "quarterly"
    THEN Dec(period.year) \o <<"-", "Q">> \o Dec(period.idx)
    ELSE Dec(period.year) \o <<"-">> \o Dec(period.idx)

\* PeriodHelper.get_period_key; a period is [type, year, idx], idx being the
\* dict's week / biweek / quarter / month entry
get_period_key(period) ==
    IF period.type = "weekly"
    THEN Dec(period.year) \o <<"-", "W">> \o Dec02(period.idx)
    ELSE IF period.type = "biweekly"
    THEN Dec(period.year) \o <<"-", "B", "W">> \o Dec02(period.idx)
    ELSE IF period.type = "quarterly"
    THEN Dec(period.year) \o <<"-", "Q">> \o Dec(period.idx)
    ELSE Dec(period.year) \o <<"-">> \o Dec02(period.idx)

\* Python's str < str: lexicographic by code point, a proper prefix is smaller
StrLess(a, b) ==
    \E i \in 1..Len(b) :
        /\ i <= Len(a) + 1
        /\ \A j \in 1..(i - 1) : a[j] = b[j]
        /\ (i = Len(a) + 1 \/ Ord(a[i]) < Ord(b[i]))

\* period=None (and the empty string, which `if period` treats alike)
NoPeriod == <<>>

\* no period selector on screen
NoSelector == [period_type |-> "None"]

\* period_type=None
NoType == "None"

\* an absent "updatedAt" key
NoStamp == "absent"

\* datetime.now().isoformat(): no code reads the stamps back, one instant
Now == "now"

---------------------------------------------------------------------------
(* DataManager *)

\* DataManager._ensure_data_file: the dataset of a fresh data file
initial_data == [kids |-> <<>>, settings |-> [period |-> "monthly", currency |-> "EUR"]]

\* DataManager.add_kid: the record appended for a new kid
new_kid(id, name) ==
    [id |-> id, name |-> name,
     allocation |-> [spent |-> 40, saved |-> 40, given |-> 20],
     interestRate |-> 0,
     entries |-> <<>>]

\* what a DataManager call did: the file content afterwards, the truthiness
\* of its return value, the entry it returned (add_entry), and whether
\* _save_data was called
Outcome(d, ok, entry, wrote) == [data |-> d, ok |-> ok, entry |-> entry, wrote |-> wrote]

\* positions of the kids whose id is kid_id
KidsWithId(d, kid_id) == {i \in DOMAIN d.kids : d.kids[i].id = kid_id}

\* every entry id in the dataset
EntryIds(d) == UNION {{d.kids[i].entries[j].id : j \in DOMAIN d.kids[i].entries} : i \in DOMAIN d.kids}

\* f"entry_{uuid.uuid4().hex[:12]}": an id no entry of the dataset has
FreshEntryId(d) == Min({n \in 1..(Cardinality(EntryIds(d)) + 1) : n \notin EntryIds(d)})

\* f"kid_{uuid.uuid4().hex[:12]}"
FreshKidId(d) == Len(d.kids) + 1

TotalEntries(d) ==
    LET RECURSIVE Sum(_)
        Sum(i) == IF i = 0 THEN 0 ELSE Len(d.kids[i].entries) + Sum(i - 1)
    IN  Sum(Len(d.kids))

\* DataManager.add_kid
add_kid(d, name, new_id) ==
    Outcome([d EXCEPT !.kids = Append(@, new_kid(new_id, name))], TRUE, <<>>, TRUE)

\* the new_entry dict of add_entry
new_entry(new_id, period, period_type, amount, interest_rate, spent_pct, saved_pct, given_pct, used_from_saved) ==
    [id |-> new_id,
     period |-> period,
     periodType |-> period_type,
     amount |-> amount,
     spentPercent |-> spent_pct,
     savedPercent |-> saved_pct,
     givenPercent |-> given_pct,
     spent |-> Round2(PctOf(amount, spent_pct)),
     saved |-> Round2(PctOf(amount, saved_pct)),
     given |-> Round2(PctOf(amount, given_pct)),
     usedFromSaved |-> Round2(used_from_saved),
     interestRate |-> interest_rate,
     createdAt |-> Now,
     updatedAt |-> NoStamp]

\* add_entry with the duplicate test narrowed to entries of the same periodType
add_entry_same_type(d, kid_id, period, period_type, amount, interest_rate, spent_pct, saved_pct, given_pct, used_from_saved, new_id) ==
    IF KidsWithId(d, kid_id) = {} THEN Outcome(d, FALSE, <<>>, FALSE)
    ELSE
    LET k == Min(KidsWithId(d, kid_id))
        kid == d.kids[k]
    IN  IF \E j \in DOMAIN kid.entries : kid.entries[j].period = period /\ kid.entries[j].periodType = period_type
        THEN Outcome(d, FALSE, <<>>, FALSE)
        ELSE
        LET e == new_entry(new_id, period, period_type, amount, interest_rate,
                           spent_pct, saved_pct, given_pct, used_from_saved)
        IN  Outcome([d EXCEPT !.kids[k].entries = Append(@, e)], TRUE, <<e>>, TRUE)

\* DataManager.add_entry
add_entry(d, kid_id, period, period_type, amount, interest_rate, spent_pct, saved_pct, given_pct, used_from_saved, new_id) ==
    IF KidsWithId(d, kid_id) = {} THEN Outcome(d, FALSE, <<>>, FALSE)
    ELSE
    LET k == Min(KidsWithId(d, kid_id))
        kid == d.kids[k]
    IN  IF \E j \in DOMAIN kid.entries : kid.entries[j].period = period
        THEN Outcome(d, FALSE, <<>>, FALSE)    \* duplicate
        ELSE
        LET e == new_entry(new_id, period, period_type, amount, interest_rate,
                           spent_pct, saved_pct, given_pct, used_from_saved)
        IN  Outcome([d EXCEPT !.kids[k].entries = Append(@, e)], TRUE, <<e>>, TRUE)

\* the field assignments of update_entry after the conflict check
updated_entry(entry, amount, spent_pct, saved_pct, given_pct, interest_rate, used_from_saved, period, period_type) ==
    LET moved == period # NoPeriod /\ period # entry.period
    IN  [entry EXCEPT
            !.period = IF moved THEN period ELSE @,
            !.periodType = IF moved /\ period_type # NoType THEN period_type ELSE @,
            !.amount = amount,
            !.spentPercent = spent_pct,
            !.savedPercent = saved_pct,
            !.givenPercent = given_pct,
            !.spent = Round2(PctOf(amount, spent_pct)),
            !.saved = Round2(PctOf(amount, saved_pct)),
            !.given = Round2(PctOf(amount, given_pct)),
            !.usedFromSaved = Round2(used_from_saved),
            !.interestRate = interest_rate,
            !.updatedAt = Now]

\* the conflict check with `other_entry["id"] == entry_id` for `!=`
period_conflict_self(kid, entry, entry_id, period) ==
    /\ period # NoPeriod
    /\ period # entry.period
    /\ \E o \in DOMAIN kid.entries :
            kid.entries[o].id = entry_id /\ kid.entries[o].period = period

\* the conflict check without its two exclusions of the entry itself
period_conflict_own(kid, entry, entry_id, period) ==
    /\ period # NoPeriod
    /\ \E o \in DOMAIN kid.entries : kid.entries[o].period = period

\* the conflict check of update_entry: another entry of the kid owns `period`
period_conflict(kid, entry, entry_id, period) ==
    /\ period # NoPeriod
    /\ period # entry.period
    /\ \E o \in DOMAIN kid.entries :
            kid.entries[o].id # entry_id /\ kid.entries[o].period = period

\* DataManager.update_entry
update_entry(d, kid_id, entry_id, amount, spent_pct, saved_pct, given_pct, interest_rate, used_from_saved, period, period_type) ==
    IF KidsWithId(d, kid_id) = {} THEN Outcome(d, FALSE, <<>>, FALSE)
    ELSE
    LET k == Min(KidsWithId(d, kid_id))
        kid == d.kids[k]
        es == {j \in DOMAIN kid.entries : kid.entries[j].id = entry_id}
    IN  IF es = {} THEN Outcome(d, FALSE, <<>>, FALSE)
        ELSE
        LET j == Min(es)
            entry == kid.entries[j]
        IN  IF period_conflict(kid, entry, entry_id, period)
            THEN Outcome(d, FALSE, <<>>, FALSE)    \* conflict
            ELSE Outcome([d EXCEPT !.kids[k].entries[j] =
                            updated_entry(entry, amount, spent_pct, saved_pct,
                                          given_pct, interest_rate,
                                          used_from_saved, period, period_type)],
                         TRUE, <<>>, TRUE)

\* the filter of delete_entry dropping the entry and every entry after it
RECURSIVE WithoutIdAndAfter(_, _)
WithoutIdAndAfter(entries, entry_id) ==
    IF entries = <<>> THEN <<>>
    ELSE IF Head(entries).id = entry_id THEN <<>>
    ELSE <<Head(entries)>> \o WithoutIdAndAfter(Tail(entries), entry_id)

\* [e for e in entries if e["id"] != entry_id]
RECURSIVE WithoutId(_, _)
WithoutId(entries, entry_id) ==
    IF entries = <<>> THEN <<>>
    ELSE IF Head(entries).id = entry_id THEN WithoutId(Tail(entries), entry_id)
    ELSE <<Head(entries)>> \o WithoutId(Tail(entries), entry_id)

\* delete_entry with _save_data called before the length test
delete_entry_saves_first(d, kid_id, entry_id) ==
    IF KidsWithId(d, kid_id) = {} THEN Outcome(d, FALSE, <<>>, FALSE)
    ELSE
    LET k == Min(KidsWithId(d, kid_id))
        kept == WithoutId(d.kids[k].entries, entry_id)
    IN  Outcome([d EXCEPT !.kids[k].entries = kept], Len(kept) < Len(d.kids[k].entries), <<>>, TRUE)

\* delete_entry with the filter applied to the entries of every kid
delete_entry_every_kid(d, kid_id, entry_id) ==
    IF KidsWithId(d, kid_id) = {} THEN Outcome(d, FALSE, <<>>, FALSE)
    ELSE
    LET kept == [i \in DOMAIN d.kids |-> [d.kids[i] EXCEPT !.entries = WithoutId(@, entry_id)]]
    IN  IF kept # d.kids
        THEN Outcome([d EXCEPT !.kids = kept], TRUE, <<>>, TRUE)
        ELSE Outcome(d, FALSE, <<>>, FALSE)

\* DataManager.delete_entry
delete_entry(d, kid_id, entry_id) ==
    IF KidsWithId(d, kid_id) = {} THEN Outcome(d, FALSE, <<>>, FALSE)
    ELSE
    LET k == Min(KidsWithId(d, kid_id))
        kept == WithoutId(d.kids[k].entries, entry_id)
    IN  IF Len(kept) < Len(d.kids[k].entries)
        THEN Outcome([d EXCEPT !.kids[k].entries = kept], TRUE, <<>>, TRUE)
        ELSE Outcome(d, FALSE, <<>>, FALSE)

---------------------------------------------------------------------------
(* DataManager._calculate_totals *)

\* the insertion of a sort that puts the weekly entries before all others
RECURSIVE InsertWeeksFirst(_, _)
InsertWeeksFirst(sorted, e) ==
    IF sorted = <<>> THEN <<e>>
    ELSE IF \/ e.periodType = "weekly" /\ Head(sorted).periodType # "weekly"
            \/ /\ (e.periodType = "weekly") = (Head(sorted).periodType = "weekly")
               /\ StrLess(e.period, Head(sorted).period)
    THEN <<e>> \o sorted
    ELSE <<Head(sorted)>> \o InsertWeeksFirst(Tail(sorted), e)

\* one insertion of sorted(): e goes after every element whose key is not greater
RECURSIVE InsertByPeriod(_, _)
InsertByPeriod(sorted, e) ==
    IF sorted = <<>> THEN <<e>>
    ELSE IF StrLess(e.period, Head(sorted).period) THEN <<e>> \o sorted
    ELSE <<Head(sorted)>> \o InsertByPeriod(Tail(sorted), e)

\* the entries taken in their stored order, without the sort
entries_as_stored(entries) == entries

\* sorted(entries, key=lambda x: x["period"]): ascending by key string, stable
RECURSIVE sorted_entries(_)
sorted_entries(entries) ==
    IF entries = <<>> THEN <<>>
    ELSE InsertByPeriod(sorted_entries(SubSeq(entries, 1, Len(entries) - 1)), entries[Len(entries)])

\* the accumulators before the loop of _calculate_totals
fold_init ==
    [total_spent |-> 0, total_given |-> 0, total_interest |-> 0,
     total_used_from_saved |-> 0, running_saved |-> 0, processed_entries |-> <<>>]

\* the interest of one loop body: running_saved * (interest_rate / 100)
interest_amount(running_saved, entry) == PctOf(running_saved, entry.interestRate)

\* the loop body with the interest taken after the entry's saved is added
fold_step_saved_first(acc, entry) ==
    LET interest == interest_amount(Plus(acc.running_saved, entry.saved), entry)
        running == Minus(Plus(Plus(acc.running_saved, entry.saved), interest), entry.usedFromSaved)
        processed_entry == ("interestEarned" :> Round2(interest)) @@ ("runningSaved" :> Round2(running)) @@ entry
    IN  [total_spent |-> Plus(acc.total_spent, entry.spent),
         total_given |-> Plus(acc.total_given, entry.given),
         total_interest |-> Plus(acc.total_interest, interest),
         total_used_from_saved |-> Plus(acc.total_used_from_saved, entry.usedFromSaved),
         running_saved |-> running,
         processed_entries |-> Append(acc.processed_entries, processed_entry)]

\* one body of the loop of _calculate_totals
fold_step(acc, entry) ==
    LET interest == interest_amount(acc.running_saved, entry)
        running == Minus(Plus(Plus(acc.running_saved, interest), entry.saved), entry.usedFromSaved)
        processed_entry == ("interestEarned" :> Round2(interest)) @@ ("runningSaved" :> Round2(running)) @@ entry
    IN  [total_spent |-> Plus(acc.total_spent, entry.spent),
         total_given |-> Plus(acc.total_given, entry.given),
         total_interest |-> Plus(acc.total_interest, interest),
         total_used_from_saved |-> Plus(acc.total_used_from_saved, entry.usedFromSaved),
         running_saved |-> running,
         processed_entries |-> Append(acc.processed_entries, processed_entry)]

\* the loop of _calculate_totals over the sorted entries
RECURSIVE fold_entries(_, _)
fold_entries(acc, entries) ==
    IF entries = <<>> THEN acc
    ELSE fold_entries(fold_step(acc, Head(entries)), Tail(entries))

\* the dict with the grand total taken from the spent total without the
\* withdrawals added to it
totals_of_without_used(acc) ==
    [totalSpent |-> Round2(Plus(acc.total_spent, acc.total_used_from_saved)),
     totalSaved |-> Round2(acc.running_saved),
     totalGiven |-> Round2(acc.total_given),
     totalInterest |-> Round2(acc.total_interest),
     totalUsedFromSaved |-> Round2(acc.total_used_from_saved),
     grandTotal |-> Round2(Plus(Plus(acc.total_spent, acc.running_saved), acc.total_given)),
     entries |-> acc.processed_entries]

\* the dict _calculate_totals returns, from the accumulators after the loop
totals_of(acc) ==
    LET total_spent_with_used == Plus(acc.total_spent, acc.total_used_from_saved)
    IN  [totalSpent |-> Round2(total_spent_with_used),
         totalSaved |-> Round2(acc.running_saved),
         totalGiven |-> Round2(acc.total_given),
         totalInterest |-> Round2(acc.total_interest),
         totalUsedFromSaved |-> Round2(acc.total_used_from_saved),
         grandTotal |-> Round2(Plus(Plus(total_spent_with_used, acc.running_saved), acc.total_given)),
         entries |-> acc.processed_entries]

\* DataManager._calculate_totals
calculate_totals(kid) == totals_of(fold_entries(fold_init, sorted_entries(kid.entries)))

---------------------------------------------------------------------------
(* Spec: the DataManager operations called with arbitrary arguments, on a  *)
(* data file that holds two kids                                           *)

\* the data file after add_kid("Ann") and add_kid("Bob")
two_kids == add_kid(add_kid(initial_data, "Ann", FreshKidId(initial_data)).data, "Bob", FreshKidId(initial_data) + 1).data

\* kid ids passed to the operations: those of the two kids and one no kid has
KidIdArgs == {k.id : k \in {two_kids.kids[i] : i \in DOMAIN two_kids.kids}} \cup {Len(two_kids.kids) + 1}

\* entry ids passed to the operations: those in use and one no entry has
EntryIdArgs(d) == EntryIds(d) \cup {FreshEntryId(d)}

Month(y, m) == [type |-> "monthly", year |-> y, idx |-> m]
Week(y, w) == [type |-> "weekly", year |-> y, idx |-> w]

\* the first of a set of keys
Min1(S) == CHOOSE k \in S : \A o \in S : o = k \/ StrLess(k, o)

\* the period keys passed to the operations
LedgerKeys == {get_period_key(Month(2024, 1)), get_period_key(Month(2024, 2))}

\* the period types passed along, independently of the key
LedgerTypes == {"monthly", "weekly"}

\* the numeric arguments add_entry is called with
AddArgs == [amount |-> Eur(250, 0), spent |-> 40, saved |-> 40, given |-> 20, rate |-> 0, used |-> 0]

\* the numeric arguments update_entry is called with: each differs from AddArgs
UpdateArgs == [amount |-> Eur(100, 0), spent |-> 0, saved |-> 100, given |-> 0, rate |-> 10, used |-> Eur(50, 0)]

NoCall == [op |-> "none"]

\* the record of a DataManager call: the arguments that address it, the
\* period the addressed entry had before it, and its outcome
ApiCall(op, kid_id, entry_id, period, period_type, prev, out) ==
    [op |-> op, kid_id |-> kid_id, entry_id |-> entry_id, period |-> period,
     period_type |-> period_type, prev |-> prev,
     ok |-> out.ok, entry |-> out.entry, wrote |-> out.wrote]

\* the entries of the kid the operations reach under kid_id, <<>> when none
EntriesOf(d, kid_id) ==
    IF KidsWithId(d, kid_id) = {} THEN <<>> ELSE d.kids[Min(KidsWithId(d, kid_id))].entries

\* the period of entry entry_id of kid kid_id, NoPeriod when there is none
PeriodOfEntry(d, kid_id, entry_id) ==
    LET es == EntriesOf(d, kid_id)
        S == {j \in DOMAIN es : es[j].id = entry_id}
    IN  IF S = {} THEN NoPeriod ELSE es[Min(S)].period

Init ==
    /\ data = two_kids
    /\ call = NoCall
    /\ kidIn = <<>>
    /\ totalsOut = <<>>
    /\ selector = NoSelector

\* a call that finds no kid (no entry) returns before it reads its other
\* arguments: such calls are made with one choice of them
Addressed(d, kid_id, entry_id) == PeriodOfEntry(d, kid_id, entry_id) # NoPeriod

AddEntry ==
    /\ TotalEntries(data) < MaxEntries
    /\ \E kid_id \in KidIdArgs, period \in LedgerKeys, period_type \in LedgerTypes :
        /\ KidsWithId(data, kid_id) # {} \/ (period = Min1(LedgerKeys) /\ period_type = "monthly")
        /\ LET a == AddArgs
               out == add_entry(data, kid_id, period, period_type, a.amount, a.rate, a.spent, a.saved, a.given, a.used, FreshEntryId(data))
           IN  /\ data' = out.data
               /\ call' = ApiCall("add_entry", kid_id, 0, period, period_type, NoPeriod, out)
    /\ UNCHANGED <<kidIn, totalsOut, selector>>

UpdateEntry ==
    /\ \E kid_id \in KidIdArgs, entry_id \in EntryIdArgs(data), period \in LedgerKeys \cup {NoPeriod}, period_type \in {"weekly", NoType} :
        /\ Addressed(data, kid_id, entry_id) \/ (period = NoPeriod /\ period_type = NoType)
        /\ KidsWithId(data, kid_id) # {} \/ entry_id = FreshEntryId(data)
        /\ LET a == UpdateArgs
               out == update_entry(data, kid_id, entry_id, a.amount, a.spent, a.saved, a.given, a.rate, a.used, period, period_type)
           IN  /\ data' = out.data
               /\ call' = ApiCall("update_entry", kid_id, entry_id, period, period_type, PeriodOfEntry(data, kid_id, entry_id), out)
    /\ UNCHANGED <<kidIn, totalsOut, selector>>

DeleteEntry ==
    /\ \E kid_id \in KidIdArgs, entry_id \in EntryIdArgs(data) :
        /\ KidsWithId(data, kid_id) # {} \/ entry_id = FreshEntryId(data)
        /\ LET out == delete_entry(data, kid_id, entry_id)
           IN  /\ data' = out.data
               /\ call' = ApiCall("delete_entry", kid_id, entry_id, NoPeriod, NoType, PeriodOfEntry(data, kid_id, entry_id), out)
    /\ UNCHANGED <<kidIn, totalsOut, selector>>

Next == AddEntry \/ UpdateEntry \/ DeleteEntry

Spec == Init /\ [][Next]_vars

---------------------------------------------------------------------------
(* The kid details view: KidDetailsView and EditEntryDialog *)

\* update_allocation also writing the new rate into the kid's entries
update_allocation_and_entries(d, kid_id, spent, saved, given, interest_rate) ==
    IF KidsWithId(d, kid_id) = {} THEN Outcome(d, FALSE, <<>>, FALSE)
    ELSE
    LET k == Min(KidsWithId(d, kid_id))
    IN  Outcome([d EXCEPT !.kids[k].allocation = [spent |-> spent, saved |-> saved, given |-> given],
                          !.kids[k].interestRate = interest_rate,
                          !.kids[k].entries = [j \in DOMAIN @ |-> [@[j] EXCEPT !.interestRate = interest_rate]]],
                TRUE, <<>>, TRUE)

\* DataManager.update_allocation
update_allocation(d, kid_id, spent, saved, given, interest_rate) ==
    IF KidsWithId(d, kid_id) = {} THEN Outcome(d, FALSE, <<>>, FALSE)
    ELSE
    LET k == Min(KidsWithId(d, kid_id))
    IN  Outcome([d EXCEPT !.kids[k].allocation = [spent |-> spent, saved |-> saved, given |-> given],
                          !.kids[k].interestRate = interest_rate],
                TRUE, <<>>, TRUE)

\* DataManager.get_kid for a kid of the dataset: the kid with its totals and
\* with the annotated entries of the totals for its entries
get_kid(d, kid_id) ==
    LET kid == d.kids[Min(KidsWithId(d, kid_id))]
        totals == calculate_totals(kid)
    IN  ("totals" :> totals) @@ [kid EXCEPT !.entries = totals.entries]

\* what a handler did: the file content afterwards and the error it showed
\* ("ok" when it showed none).  The errors carry the names of the design:
\* ValidationError, Overdraw, DuplicatePeriod, PeriodConflict.
Shown(d, err) == [data |-> d, err |-> err]

\* abs(spent + saved + given - 100) > 0.01, percentages being whole numbers
SplitOff(spent_pct, saved_pct, given_pct) == Abs(spent_pct + saved_pct + given_pct - 100) * 100 > 1

\* KidDetailsView._add_entry; self.kid is get_kid() of the file, which
\* _refresh reloads after every change
ui_add_entry(d, kid_id, amount, used_from_saved, period, new_id) ==
    LET kid == get_kid(d, kid_id)
        available_saved == kid.totals.totalSaved
    IN  IF Le(amount, 0) THEN Shown(d, "ValidationError")
        ELSE IF Lt(used_from_saved, 0) THEN Shown(d, "ValidationError")
        ELSE IF Gt(used_from_saved, available_saved) THEN Shown(d, "Overdraw")
        ELSE
        LET result == add_entry(d, kid_id, get_period_key(period), period.type, amount, kid.interestRate, kid.allocation.spent, kid.allocation.saved, kid.allocation.given, used_from_saved, new_id)
        IN  IF ~result.ok THEN Shown(d, "DuplicatePeriod") ELSE Shown(result.data, "ok")

\* KidDetailsView._edit_entry: the runningSaved annotated at the entry that
\* precedes entry_id in key order, 0 when it is the first
available_saved_before(kid, entry_id) ==
    LET sorted == sorted_entries(kid.entries)
        pos == Min({i \in DOMAIN sorted : sorted[i].id = entry_id})
    IN  IF pos = 1 THEN 0 ELSE sorted[pos - 1].runningSaved

\* the entry _edit_entry hands to the dialog
target_entry(kid, entry_id) ==
    LET sorted == sorted_entries(kid.entries)
    IN  sorted[Min({i \in DOMAIN sorted : sorted[i].id = entry_id})]

\* EditEntryDialog.__init__: self.available_saved
dialog_available_saved(kid, entry_id) ==
    Plus(available_saved_before(kid, entry_id), target_entry(kid, entry_id).saved)

\* EditEntryDialog._save followed by KidDetailsView._save_entry_changes
edit_dialog_save(d, kid_id, entry_id, available_saved, amount, spent_pct, saved_pct, given_pct, interest_rate, used_from_saved, period) ==
    IF Le(amount, 0) THEN Shown(d, "ValidationError")
    ELSE IF SplitOff(spent_pct, saved_pct, given_pct) THEN Shown(d, "ValidationError")
    ELSE IF Lt(used_from_saved, 0) THEN Shown(d, "ValidationError")
    ELSE IF Gt(used_from_saved, available_saved) THEN Shown(d, "Overdraw")
    ELSE
    LET result == update_entry(d, kid_id, entry_id, amount, spent_pct, saved_pct, given_pct, interest_rate, used_from_saved, get_period_key(period), period.type)
    IN  IF ~result.ok THEN Shown(d, "PeriodConflict") ELSE Shown(result.data, "ok")

\* KidDetailsView._edit_entry, the modal dialog it opens, and the dialog's
\* Save button
ui_edit_entry(d, kid_id, entry_id, amount, spent_pct, saved_pct, given_pct, interest_rate, used_from_saved, period) ==
    edit_dialog_save(d, kid_id, entry_id, dialog_available_saved(get_kid(d, kid_id), entry_id), amount, spent_pct, saved_pct, given_pct, interest_rate, used_from_saved, period)

\* KidDetailsView._delete_entry, the confirmation answered yes
ui_delete_entry(d, kid_id, entry_id) == Shown(delete_entry(d, kid_id, entry_id).data, "ok")

\* KidDetailsView._save_allocation
ui_save_allocation(d, kid_id, spent, saved, given, interest) ==
    IF SplitOff(spent, saved, given) THEN Shown(d, "ValidationError")
    ELSE Shown(update_allocation(d, kid_id, spent, saved, given, interest).data, "ok")

---------------------------------------------------------------------------
(* SpecUI: the handlers of the details view of one kid *)

\* the data file when the view opens: the kid it shows, without entries
one_kid == add_kid(initial_data, "Ann", FreshKidId(initial_data)).data

\* self.kid_id
ViewKid == one_kid.kids[Len(one_kid.kids)].id

\* the periods the period selector is set to
UiPeriods == {Month(2024, 1), Month(2024, 2)}

\* what is typed into the add form: amount and used-from-saved
UiAdds ==
    { <<Eur(250, 0), 0>>, <<Eur(250, 0), Eur(110, 0)>>,
      <<0, 0>>, <<Eur(250, 0), 0 - Eur(1, 0)>>, <<NaN, 0>> }

\* what is typed into the edit dialog: amount, split, interest rate and
\* used-from-saved
UiEdits ==
    { <<Eur(250, 0), <<40, 40, 20>>, 0, 0>>,
      <<Eur(250, 0), <<100, 0, 0>>, 10, 0>>,
      <<Eur(250, 0), <<100, 0, 0>>, 10, Eur(110, 0)>>,
      <<Eur(250, 0), <<100, 0, 0>>, 10, Eur(111, 0)>>,
      <<0, <<40, 40, 20>>, 0, 0>>,
      <<Eur(250, 0), <<50, 50, 50>>, 0, 0>>,
      <<Eur(250, 0), <<40, 40, 20>>, 0, 0 - Eur(1, 0)>> }

\* what is typed into the default allocation form: spent, saved, given, rate
UiAllocations == {<<40, 40, 20, 0>>, <<100, 0, 0, 10>>, <<50, 50, 50, 0>>}

\* the record of a handler run: what was entered and the error shown
UiCall(op, entry_id, period, amount, split, rate, used, err) ==
    [op |-> op, entry_id |-> entry_id, period |-> period, amount |-> amount,
     split |-> split, rate |-> rate, used |-> used, err |-> err]

InitUI ==
    /\ data = one_kid
    /\ call = NoCall
    /\ kidIn = <<>>
    /\ totalsOut = <<>>
    /\ selector = NoSelector

UiAddEntry ==
    /\ TotalEntries(data) < MaxEntries
    /\ \E f \in UiAdds, p \in UiPeriods :
        LET kid == data.kids[Min(KidsWithId(data, ViewKid))]
            out == ui_add_entry(data, ViewKid, f[1], f[2], p, FreshEntryId(data))
        IN  /\ data' = out.data
            /\ call' = UiCall("add", 0, get_period_key(p), f[1], <<kid.allocation.spent, kid.allocation.saved, kid.allocation.given>>, kid.interestRate, f[2], out.err)
    /\ UNCHANGED <<kidIn, totalsOut, selector>>

UiEditEntry ==
    /\ \E entry_id \in EntryIds(data), f \in UiEdits, p \in UiPeriods :
        LET out == ui_edit_entry(data, ViewKid, entry_id, f[1], f[2][1], f[2][2], f[2][3], f[3], f[4], p)
        IN  /\ data' = out.data
            /\ call' = UiCall("edit", entry_id, get_period_key(p), f[1], f[2], f[3], f[4], out.err)
    /\ UNCHANGED <<kidIn, totalsOut, selector>>

UiDeleteEntry ==
    /\ \E entry_id \in EntryIds(data) :
        LET out == ui_delete_entry(data, ViewKid, entry_id)
        IN  /\ data' = out.data
            /\ call' = UiCall("delete", entry_id, NoPeriod, 0, <<>>, 0, 0, out.err)
    /\ UNCHANGED <<kidIn, totalsOut, selector>>

UiSaveAllocation ==
    /\ \E a \in UiAllocations :
        LET out == ui_save_allocation(data, ViewKid, a[1], a[2], a[3], a[4])
        IN  /\ data' = out.data
            /\ call' = UiCall("allocation", 0, NoPeriod, 0, <<a[1], a[2], a[3]>>, a[4], 0, out.err)
    /\ UNCHANGED <<kidIn, totalsOut, selector>>

NextUI == UiAddEntry \/ UiEditEntry \/ UiDeleteEntry \/ UiSaveAllocation

SpecUI == InitUI /\ [][NextUI]_vars

---------------------------------------------------------------------------
(* Claims about the DataManager operations (Spec) *)

EntryOps == {"add_entry", "update_entry", "delete_entry"}

\* C1: after any sequence of add_entry, update_entry and delete_entry calls,
\* no two entries of one kid have the same period key.
C1_UniquePeriodPerKid ==
    \A i \in DOMAIN data.kids :
        \A a, b \in DOMAIN data.kids[i].entries :
            a # b => data.kids[i].entries[a].period # data.kids[i].entries[b].period

\* a kid holds two entries and an update_entry that asked to move one of
\* them onto the other's key has just been refused
C1_Witness ==
    /\ call.op = "update_entry"
    /\ ~call.ok
    /\ call.prev # NoPeriod
    /\ call.period \notin {NoPeriod, call.prev}
    /\ Len(EntriesOf(data, call.kid_id)) = 2

\* C2: add_entry for a kid that already has an entry with the given period
\* key returns no entry, whatever the periodType argument, and leaves the
\* kid's number of entries as it was.
C2_DuplicateAddFails ==
    [][(/\ call'.op = "add_entry"
        /\ \E j \in DOMAIN EntriesOf(data, call'.kid_id) : EntriesOf(data, call'.kid_id)[j].period = call'.period)
       => (/\ ~call'.ok
           /\ call'.entry = <<>>
           /\ Len(EntriesOf(data', call'.kid_id)) = Len(EntriesOf(data, call'.kid_id)))]_vars

\* an add_entry was refused for a key that an entry of another periodType holds
C2_Witness ==
    /\ call.op = "add_entry"
    /\ ~call.ok
    /\ \E j \in DOMAIN EntriesOf(data, call.kid_id) :
        /\ EntriesOf(data, call.kid_id)[j].period = call.period
        /\ EntriesOf(data, call.kid_id)[j].periodType # call.period_type

\* C8: whenever add_entry, update_entry or delete_entry fails, the stored
\* dataset is the one before the call and _save_data has not been called.
C8_FailureChangesNothing ==
    [][(call'.op \in EntryOps /\ ~call'.ok) => (data' = data /\ ~call'.wrote)]_vars

\* a delete_entry with an id that the kid, who has entries, does not hold
\* has just failed
C8_Witness ==
    /\ call.op = "delete_entry"
    /\ ~call.ok
    /\ call.prev = NoPeriod
    /\ Len(EntriesOf(data, call.kid_id)) > 0

\* C9: update_entry of an existing entry with a period key other than its
\* current one fails when a different entry of the kid owns that key, and
\* moves the entry when none does; its own key, or no key, is no conflict.
C9_PeriodConflict ==
    [][(call'.op = "update_entry" /\ call'.prev # NoPeriod) =>
        LET es == EntriesOf(data, call'.kid_id)
            owned == \E j \in DOMAIN es : es[j].id # call'.entry_id /\ es[j].period = call'.period
            after == PeriodOfEntry(data', call'.kid_id, call'.entry_id)
        IN  IF call'.period \notin {NoPeriod, call'.prev} /\ owned
            THEN ~call'.ok /\ after = call'.prev
            ELSE call'.ok /\ after = (IF call'.period = NoPeriod THEN call'.prev ELSE call'.period)]_vars

\* an update_entry has just moved an entry to a key that no entry owned
C9_Witness ==
    /\ call.op = "update_entry"
    /\ call.ok
    /\ call.prev # NoPeriod
    /\ call.period \notin {NoPeriod, call.prev}
    /\ PeriodOfEntry(data, call.kid_id, call.entry_id) = call.period

---------------------------------------------------------------------------
(* SpecTotals: _calculate_totals applied to the entry lists a kid can hold *)

\* longest entry list handed to _calculate_totals
MaxFold == 3

\* the periods of the entries: two months and a week of one year
FoldPeriods == {Month(2024, 1), Month(2024, 2), Week(2024, 1)}

\* amounts, splits, rates and withdrawals of the entries.  Every value is a
\* multiple of 1/4 or whole and every rate halves or keeps a balance, so the
\* float arithmetic of the source is exact on them and round() meets true ties.
FoldAmounts == {Eur(0, 25), Eur(100, 0)}
FoldSplits == {<<0, 100, 0>>, <<100, 0, 0>>, <<0, 0, 100>>}
FoldRates == {0, 50}
FoldUsed == {0, Eur(0, 25)}

\* the entry add_entry stores for one choice of arguments
FoldEntry(id, p, amount, split, rate, used) ==
    new_entry(id, get_period_key(p), p.type, amount, rate, split[1], split[2], split[3], used)

\* the kid whose n entries are, in stored order, those of the chosen arguments
FoldKid(n, ps, am, sp, ra, us) ==
    [new_kid(1, "Ann") EXCEPT !.entries = [i \in 1..n |-> FoldEntry(i, ps[i], am[i], sp[i], ra[i], us[i])]]

\* a kid holds one entry per period key at most
DistinctPeriods(n, ps) == \A a, b \in 1..n : a # b => ps[a] # ps[b]

InitTotals ==
    /\ data = initial_data
    /\ call = NoCall
    /\ totalsOut = <<>>
    /\ selector = NoSelector
    /\ \E n \in 0..MaxFold :
        \E ps \in [1..n -> FoldPeriods] :
            /\ DistinctPeriods(n, ps)
            /\ \E am \in [1..n -> FoldAmounts], sp \in [1..n -> FoldSplits], ra \in [1..n -> FoldRates], us \in [1..n -> FoldUsed] :
                kidIn = FoldKid(n, ps, am, sp, ra, us)

\* totals = self._calculate_totals(kid)
ComputeTotals ==
    /\ totalsOut' = <<calculate_totals(kidIn)>>
    /\ UNCHANGED <<data, call, kidIn, selector>>

NextTotals == ComputeTotals

SpecTotals == InitTotals /\ [][NextTotals]_vars

---------------------------------------------------------------------------
(* Claims about _calculate_totals (SpecTotals) *)

\* running saved after the first i entries of the ascending list es
RECURSIVE C6_Balance(_, _)
C6_Balance(es, i) ==
    IF i = 0 THEN 0
    ELSE LET before == C6_Balance(es, i - 1)
         IN  before + PctOf(before, es[i].interestRate) + es[i].saved - es[i].usedFromSaved

\* interest of entry i: the balance before it at the entry's own rate
C6_Interest(es, i) == PctOf(C6_Balance(es, i - 1), es[i].interestRate)

RECURSIVE C6_InterestSum(_, _)
C6_InterestSum(es, i) == IF i = 0 THEN 0 ELSE C6_InterestSum(es, i - 1) + C6_Interest(es, i)

\* C6: computeTotals processes the entries in ascending period-key order from
\* a running saved balance of 0; each entry earns (running saved before it) *
\* (its own rate) / 100, after which running saved grows by that interest and
\* the entry's saved and shrinks by its usedFromSaved.  So the first entry
\* earns 0 and totalInterest is the sum of the per-entry interest.
C6_FoldOrderAndInterest ==
    totalsOut # <<>> =>
        LET t == totalsOut[1]
            es == t.entries
            n == Len(es)
        IN  /\ n = Len(kidIn.entries)
            /\ \A i \in 1..n : \E j \in DOMAIN kidIn.entries :
                    \A f \in DOMAIN kidIn.entries[j] : es[i][f] = kidIn.entries[j][f]
            /\ \A i, j \in 1..n : i < j => StrLess(es[i].period, es[j].period)
            /\ \A i \in 1..n :
                    /\ es[i].interestEarned = Round2(C6_Interest(es, i))
                    /\ es[i].runningSaved = Round2(C6_Balance(es, i))
            /\ n > 0 => es[1].interestEarned = 0
            /\ t.totalInterest = Round2(C6_InterestSum(es, n))
            /\ t.totalSaved = Round2(C6_Balance(es, n))

\* three entries stored out of key order were folded; the second and the
\* third earned interest, the third on a balance that holds earlier interest
C6_Witness ==
    /\ totalsOut # <<>>
    /\ Len(kidIn.entries) = 3
    /\ StrLess(kidIn.entries[3].period, kidIn.entries[1].period)
    /\ totalsOut[1].entries[2].interestEarned > 0
    /\ totalsOut[1].entries[2].saved > 0
    /\ totalsOut[1].entries[3].interestEarned > totalsOut[1].entries[2].interestEarned

\* C10: the returned figures satisfy grandTotal = totalSpent + totalSaved +
\* totalGiven exactly, each being the rounded value that is returned.
C10_GrandTotalIsSumOfParts ==
    totalsOut # <<>> =>
        totalsOut[1].grandTotal = totalsOut[1].totalSpent + totalsOut[1].totalSaved + totalsOut[1].totalGiven

\* every product x * p / 100 taken by the fold is exact in model units
ExactArithmetic ==
    totalsOut # <<>> =>
        \A i \in DOMAIN totalsOut[1].entries :
            PctExact(C6_Balance(totalsOut[1].entries, i - 1), totalsOut[1].entries[i].interestRate)

---------------------------------------------------------------------------
(* Claims about the handlers of the details view (SpecUI) *)

\* the kid the view shows, as stored
ViewedKid(d) == d.kids[Min(KidsWithId(d, ViewKid))]

\* every stored number of the viewed kid's entries is finite
FiniteLedger(d) ==
    \A j \in DOMAIN ViewedKid(d).entries :
        ViewedKid(d).entries[j].amount # NaN /\ ViewedKid(d).entries[j].usedFromSaved # NaN

\* the running saved balance after folding those of `entries` whose key is
\* smaller than `key`, the entry `but` left out
BalanceBefore(entries, key, but) ==
    LET earlier == SelectSeq(entries, LAMBDA e : e.id # but /\ StrLess(e.period, key))
    IN  fold_entries(fold_init, sorted_entries(earlier)).running_saved

\* C3: an add for period key k is accepted only if usedFromSaved is at most
\* the balance folded from the existing entries with a smaller key plus the
\* new entry's own saved amount; a larger withdrawal is rejected and stores
\* nothing; a withdrawal within the ceiling is not rejected as an overdraw.
C3_AddWithinCeiling ==
    [][ (call'.op = "add" /\ call'.amount # NaN /\ FiniteLedger(data)) =>
        LET availableSaved == BalanceBefore(ViewedKid(data).entries, call'.period, 0) + Round2(PctOf(call'.amount, call'.split[2]))
        IN  /\ call'.err = "ok" => call'.used <= availableSaved
            /\ call'.used > availableSaved => call'.err # "ok" /\ data' = data
            /\ call'.used <= availableSaved => call'.err # "Overdraw" ]_vars

\* C4: an update is accepted only if the new usedFromSaved is at most the
\* balance folded from all other entries with a key smaller than the entry's
\* new period key plus the saved amount of the updated amount and savedPercent.
C4_UpdateWithinCeiling ==
    [][ (call'.op = "edit" /\ call'.err = "ok" /\ call'.amount # NaN /\ FiniteLedger(data)) =>
        call'.used <= BalanceBefore(ViewedKid(data).entries, call'.period, call'.entry_id) + Round2(PctOf(call'.amount, call'.split[2])) ]_vars

\* the ledger of C5: two consecutive monthly entries, the first saving 100,
\* the second saving 0 at 10%, no withdrawal yet: running saved 110.00
C5_Ledger(d) ==
    /\ Len(ViewedKid(d).entries) = 2
    /\ LET sorted == get_kid(d, ViewKid).entries
       IN  /\ sorted[1].period = get_period_key(Month(2024, 1))
           /\ sorted[2].period = get_period_key(Month(2024, 2))
           /\ sorted[1].saved = Eur(100, 0) /\ sorted[1].usedFromSaved = 0
           /\ sorted[2].saved = 0 /\ sorted[2].interestRate = 10 /\ sorted[2].usedFromSaved = 0
           /\ sorted[2].runningSaved = Eur(110, 0)

\* C5: on that ledger, updating entry 2 (nothing else changed) with
\* usedFromSaved = 111 fails with Overdraw, and with usedFromSaved = 110
\* succeeds and leaves a final running saved of 0.00.
C5_WithdrawalUpToBalance ==
    [][ ( /\ C5_Ledger(data)
          /\ call'.op = "edit"
          /\ LET e2 == get_kid(data, ViewKid).entries[2]
             IN  /\ call'.entry_id = e2.id
                 /\ call'.period = e2.period
                 /\ call'.amount = e2.amount
                 /\ call'.split = <<e2.spentPercent, e2.savedPercent, e2.givenPercent>>
                 /\ call'.rate = e2.interestRate ) =>
        /\ call'.used = Eur(111, 0) => call'.err = "Overdraw" /\ data' = data
        /\ call'.used = Eur(110, 0) => call'.err = "ok" /\ get_kid(data', ViewKid).totals.totalSaved = 0 ]_vars

\* the three conditions of a valid entry
C7_Valid(amount, split, used) ==
    /\ Gt(amount, 0)
    /\ Abs(split[1] + split[2] + split[3] - 100) * 100 <= 1
    /\ used # NaN /\ used >= 0

\* C7: every entry stored after a successful add or update has amount > 0,
\* percentages summing to 100 within 0.01 and usedFromSaved >= 0; an add or
\* update whose arguments break one of these is rejected with a validation
\* error and stores nothing.
C7_OnlyValidEntries ==
    [][ call'.op \in {"add", "edit"} =>
        /\ call'.err = "ok" =>
             \A j \in DOMAIN ViewedKid(data').entries :
                LET e == ViewedKid(data').entries[j]
                IN  C7_Valid(e.amount, <<e.spentPercent, e.savedPercent, e.givenPercent>>, e.usedFromSaved)
        /\ ~C7_Valid(call'.amount, call'.split, call'.used) =>
             call'.err = "ValidationError" /\ data' = data ]_vars

---------------------------------------------------------------------------
(* SpecRepeat: get_kid called again and again between the entry operations *)
(* on the kid it reads                                                      *)

\* number of get_kid calls between two entry operations
MaxReads == 2

\* the fields of an entry as add_entry and update_entry store it
StoredFields ==
    {"id", "period", "periodType", "amount", "spentPercent", "savedPercent", "givenPercent",
     "spent", "saved", "given", "usedFromSaved", "interestRate", "createdAt", "updatedAt"}

\* an entry operation made after `reads` get_kid calls
RepeatCall(op, reads) == [op |-> op, reads |-> reads]

\* _load_data with the entries of the kid taken from what get_kid last returned
load_data_held(file, held) ==
    IF held = <<>> THEN file
    ELSE [file EXCEPT !.kids[Min(KidsWithId(file, ViewKid))].entries = held[Len(held)].entries]

\* DataManager._load_data at the start of an entry operation: the dataset is
\* parsed from the file; nothing of what earlier calls returned is read
load_data(file, held) == file

InitRepeat ==
    /\ data = one_kid
    /\ call = NoCall
    /\ kidIn = <<>>
    /\ totalsOut = <<>>
    /\ selector = NoSelector

\* kid = self.dm.get_kid(kid_id): totalsOut collects what the calls returned
\* since the last entry operation
GetKid ==
    /\ Len(totalsOut) < MaxReads
    /\ totalsOut' = Append(totalsOut, get_kid(data, ViewKid))
    /\ call' = RepeatCall("get_kid", Len(totalsOut))
    /\ UNCHANGED <<data, kidIn, selector>>

RepeatAdd ==
    /\ TotalEntries(data) < MaxEntries
    /\ \E period \in LedgerKeys, period_type \in LedgerTypes :
        LET a == AddArgs
        IN  data' = add_entry(load_data(data, totalsOut), ViewKid, period, period_type, a.amount, a.rate, a.spent, a.saved, a.given, a.used, FreshEntryId(data)).data
    /\ call' = RepeatCall("add_entry", Len(totalsOut))
    /\ totalsOut' = <<>>
    /\ UNCHANGED <<kidIn, selector>>

RepeatUpdate ==
    /\ \E entry_id \in EntryIds(data), period \in LedgerKeys \cup {NoPeriod} :
        LET a == UpdateArgs
        IN  data' = update_entry(load_data(data, totalsOut), ViewKid, entry_id, a.amount, a.spent, a.saved, a.given, a.rate, a.used, period, NoType).data
    /\ call' = RepeatCall("update_entry", Len(totalsOut))
    /\ totalsOut' = <<>>
    /\ UNCHANGED <<kidIn, selector>>

RepeatDelete ==
    /\ \E entry_id \in EntryIds(data) :
        data' = delete_entry(load_data(data, totalsOut), ViewKid, entry_id).data
    /\ call' = RepeatCall("delete_entry", Len(totalsOut))
    /\ totalsOut' = <<>>
    /\ UNCHANGED <<kidIn, selector>>

NextRepeat == GetKid \/ RepeatAdd \/ RepeatUpdate \/ RepeatDelete

SpecRepeat == InitRepeat /\ [][NextRepeat]_vars

---------------------------------------------------------------------------
(* Dates: datetime of the standard library, a date being its proleptic     *)
(* Gregorian ordinal (1 January of year 1 is day 1, a Monday)              *)

is_leap(year) == year % 4 = 0 /\ (year % 100 # 0 \/ year % 400 = 0)

days_in_month(year, month) ==
    IF month = 2 THEN (IF is_leap(year) THEN 29 ELSE 28)
    ELSE IF month \in {4, 6, 9, 11} THEN 30
    ELSE 31

\* days of the years before `year`
days_before_year(year) ==
    LET y == year - 1
    IN  y * 365 + y \div 4 - y \div 100 + y \div 400

\* days of `year` before the first of `month`
RECURSIVE days_before_month(_, _)
days_before_month(year, month) ==
    IF month = 1 THEN 0
    ELSE days_before_month(year, month - 1) + days_in_month(year, month - 1)

\* datetime(year, month, day)
ymd2ord(year, month, day) == days_before_year(year) + days_before_month(year, month) + day

\* date.weekday(): Monday is 0
weekday(ord) == (ord + 6) % 7

\* the Monday of ISO week 1 of `year`: the week that holds its first Thursday
isoweek1monday(year) ==
    LET firstday == ymd2ord(year, 1, 1)
        firstweekday == weekday(firstday)
        week1monday == firstday - firstweekday
    IN  IF firstweekday > 3 THEN week1monday + 7 ELSE week1monday

\* date.isocalendar()[1] of the date (year, month, day)
iso_week(year, month, day) ==
    LET today == ymd2ord(year, month, day)
        week == (today - isoweek1monday(year)) \div 7
    IN  IF week < 0 THEN (today - isoweek1monday(year - 1)) \div 7 + 1
        ELSE IF week >= 52 /\ today >= isoweek1monday(year + 1) THEN 1
        ELSE week + 1

---------------------------------------------------------------------------
(* PeriodHelper *)

\* a period dict: its type, its year, and its week, biweek, quarter or month
Period(type, year, idx) == [type |-> type, year |-> year, idx |-> idx]

\* PeriodHelper.get_week_number of the date (year, month, day)
get_week_number(year, month, day) == iso_week(year, month, day)

\* PeriodHelper.get_max_weeks_in_year
get_max_weeks_in_year(year) == iso_week(year, 12, 28)

\* get_week_dates with week 1 taken to be the week of 1 January
get_week_dates_jan_1(week, year) ==
    LET jan_1 == ymd2ord(year, 1, 1)
        start_date == jan_1 - weekday(jan_1) + 7 * (week - 1)
    IN  <<start_date, start_date + 6>>

\* PeriodHelper.get_week_dates: <<start_date, end_date>>
get_week_dates(week, year) ==
    LET jan_4 == ymd2ord(year, 1, 4)
        start_of_week_1 == jan_4 - weekday(jan_4)
        start_date == start_of_week_1 + 7 * (week - 1)
    IN  <<start_date, start_date + 6>>

\* PeriodHelper.get_biweek_dates
get_biweek_dates(biweek, year) ==
    LET start_week == (biweek - 1) * 2 + 1
        end_week == start_week + 1
    IN  <<get_week_dates(start_week, year)[1], get_week_dates(end_week, year)[2]>>

\* get_quarter_dates with the quarter's end taken to be day 30 of its last month
get_quarter_dates_day_30(quarter, year) ==
    <<ymd2ord(year, (quarter - 1) * 3 + 1, 1), ymd2ord(year, (quarter - 1) * 3 + 3, 30)>>

\* PeriodHelper.get_quarter_dates
get_quarter_dates(quarter, year) ==
    LET start_month == (quarter - 1) * 3 + 1
        end_month == start_month + 2
    IN  <<ymd2ord(year, start_month, 1),
          IF end_month = 12 THEN ymd2ord(year, 12, 31) ELSE ymd2ord(year, end_month + 1, 1) - 1>>

\* PeriodHelper.get_month_dates
get_month_dates(month, year) ==
    <<ymd2ord(year, month, 1),
      IF month = 12 THEN ymd2ord(year, 12, 31) ELSE ymd2ord(year, month + 1, 1) - 1>>

\* the date range format_period_display shows for a period
period_dates(period) ==
    IF period.type = "weekly" THEN get_week_dates(period.idx, period.year)
    ELSE IF period.type = "biweekly" THEN get_biweek_dates(period.idx, period.year)
    ELSE IF period.type = "quarterly" THEN get_quarter_dates(period.idx, period.year)
    ELSE get_month_dates(period.idx, period.year)

\* PeriodHelper.get_current_period, datetime.now() being (year, month, day)
get_current_period(period_type, year, month, day) ==
    IF period_type = "weekly" THEN Period("weekly", year, get_week_number(year, month, day))
    ELSE IF period_type = "biweekly" THEN Period("biweekly", year, (get_week_number(year, month, day) + 1) \div 2)
    ELSE IF period_type = "quarterly" THEN Period("quarterly", year, (month - 1) \div 3 + 1)
    ELSE Period("monthly", year, month)

\* navigate_period with the last week of the year before taken to be week 52
navigate_weekly_to_52(period, direction) ==
    LET year == period.year
        week == period.idx + direction
    IN  IF week < 1 THEN Period("weekly", year - 1, 52)
        ELSE IF week > get_max_weeks_in_year(year) THEN Period("weekly", year + 1, 1)
        ELSE Period("weekly", year, week)

\* the weekly branch of navigate_period
navigate_weekly(period, direction) ==
    LET year == period.year
        max_weeks == get_max_weeks_in_year(year)
        week == period.idx + direction
    IN  IF week < 1 THEN Period("weekly", year - 1, get_max_weeks_in_year(year - 1))
        ELSE IF week > max_weeks THEN Period("weekly", year + 1, 1)
        ELSE Period("weekly", year, week)

\* the biweekly branch with the overflow test against the number of weeks
navigate_biweekly_by_weeks(period, direction) ==
    LET year == period.year
        biweek == period.idx + direction
    IN  IF biweek < 1 THEN Period("biweekly", year - 1, (get_max_weeks_in_year(year - 1) + 1) \div 2)
        ELSE IF biweek > get_max_weeks_in_year(year) THEN Period("biweekly", year + 1, 1)
        ELSE Period("biweekly", year, biweek)

\* the biweekly branch of navigate_period
navigate_biweekly(period, direction) ==
    LET year == period.year
        max_biweeks == (get_max_weeks_in_year(year) + 1) \div 2
        biweek == period.idx + direction
    IN  IF biweek < 1 THEN Period("biweekly", year - 1, (get_max_weeks_in_year(year - 1) + 1) \div 2)
        ELSE IF biweek > max_biweeks THEN Period("biweekly", year + 1, 1)
        ELSE Period("biweekly", year, biweek)

\* the quarterly branch of navigate_period
navigate_quarterly(period, direction) ==
    LET quarter == period.idx + direction
    IN  IF quarter < 1 THEN Period("quarterly", period.year - 1, 4)
        ELSE IF quarter > 4 THEN Period("quarterly", period.year + 1, 1)
        ELSE Period("quarterly", period.year, quarter)

\* the monthly branch of navigate_period, taken for every other type
navigate_monthly(period, direction) ==
    LET month == period.idx + direction
    IN  IF month < 1 THEN Period(period.type, period.year - 1, 12)
        ELSE IF month > 12 THEN Period(period.type, period.year + 1, 1)
        ELSE Period(period.type, period.year, month)

\* PeriodHelper.navigate_period
navigate_period(period, direction) ==
    IF period.type = "weekly" THEN navigate_weekly(period, direction)
    ELSE IF period.type = "biweekly" THEN navigate_biweekly(period, direction)
    ELSE IF period.type = "quarterly" THEN navigate_quarterly(period, direction)
    ELSE navigate_monthly(period, direction)

---------------------------------------------------------------------------
(* PeriodHelper.parse_period_key and the str and int operations it uses *)

IsDigit(c) == c \in {"0", "1", "2", "3", "4", "5", "6", "7", "8", "9"}

DigitValue(c) == CHOOSE d \in 0..9 : DigitChar(d) = c

\* sep occurs in s at position i
OccursAt(s, sep, i) == i + Len(sep) - 1 <= Len(s) /\ SubSeq(s, i, i + Len(sep) - 1) = sep

\* sep in s
Contains(s, sep) == \E i \in 1..Len(s) : OccursAt(s, sep, i)

\* s.split(sep): the pieces of s between the occurrences of sep, left to right
RECURSIVE Split(_, _)
Split(s, sep) ==
    IF ~Contains(s, sep) THEN <<s>>
    ELSE LET i == Min({j \in 1..Len(s) : OccursAt(s, sep, j)})
         IN  <<SubSeq(s, 1, i - 1)>> \o Split(SubSeq(s, i + Len(sep), Len(s)), sep)

\* s.strip() for the blank " "
RECURSIVE Strip(_)
Strip(s) ==
    IF s = <<>> THEN s
    ELSE IF s[1] = " " THEN Strip(Tail(s))
    ELSE IF s[Len(s)] = " " THEN Strip(SubSeq(s, 1, Len(s) - 1))
    ELSE s

\* the digits of an int literal after its sign
IntBody(text) ==
    LET t == Strip(text)
    IN  IF t # <<>> /\ t[1] \in {"+", "-"} THEN Tail(t) ELSE t

\* int(text) does not raise ValueError: blanks around, an optional sign, then
\* digits, single underscores allowed between digits
IntParses(text) ==
    LET b == IntBody(text)
    IN  /\ b # <<>>
        /\ IsDigit(b[1]) /\ IsDigit(b[Len(b)])
        /\ \A i \in DOMAIN b : IsDigit(b[i]) \/ b[i] = "_"
        /\ \A i \in 1..(Len(b) - 1) : ~(b[i] = "_" /\ b[i + 1] = "_")

RECURSIVE DigitsValue(_, _)
DigitsValue(b, acc) ==
    IF b = <<>> THEN acc
    ELSE IF b[1] = "_" THEN DigitsValue(Tail(b), acc)
    ELSE DigitsValue(Tail(b), acc * 10 + DigitValue(b[1]))

\* int(text) when it parses
IntValue(text) ==
    LET t == Strip(text)
        v == DigitsValue(IntBody(text), 0)
    IN  IF t[1] = "-" THEN 0 - v ELSE v

\* what parse_period_key does: it returns a period dict or raises ValueError
Parsed(period) == [ok |-> TRUE, period |-> period]
ValueError == [ok |-> FALSE, error |-> "ValueError"]

\* `year, index = period_key.split(sep)` and the two int() calls
parse_parts(period_key, sep, type) ==
    LET parts == Split(period_key, sep)
    IN  IF Len(parts) # 2 THEN ValueError
        ELSE IF ~IntParses(parts[1]) \/ ~IntParses(parts[2]) THEN ValueError
        ELSE Parsed(Period(type, IntValue(parts[1]), IntValue(parts[2])))

\* parse_period_key testing for "W" where the source tests for "-W"
parse_period_key_any_w(period_key) ==
    IF Contains(period_key, <<"W">>) THEN parse_parts(period_key, <<"-", "W">>, "weekly")
    ELSE IF Contains(period_key, <<"-", "Q">>) THEN parse_parts(period_key, <<"-", "Q">>, "quarterly")
    ELSE parse_parts(period_key, <<"-">>, "monthly")

\* PeriodHelper.parse_period_key
parse_period_key(period_key) ==
    IF Contains(period_key, <<"-", "W">>) THEN parse_parts(period_key, <<"-", "W">>, "weekly")
    ELSE IF Contains(period_key, <<"-", "B", "W">>) THEN parse_parts(period_key, <<"-", "B", "W">>, "biweekly")
    ELSE IF Contains(period_key, <<"-", "Q">>) THEN parse_parts(period_key, <<"-", "Q">>, "quarterly")
    ELSE parse_parts(period_key, <<"-">>, "monthly")

---------------------------------------------------------------------------
(* The period calendar: PeriodHelper's functions applied to the period a
   selector holds.  The selector starts on any period its year and index
   menus offer within the window of years; navigation walks on from
   there, one step past the window at most. *)

FirstYear == 2019
YearSpan == 2
LastYear == FirstYear + YearSpan
Years == FirstYear..LastYear

PeriodTypes == {"weekly", "biweekly", "monthly", "quarterly"}

\* PeriodSelectorWidget._create_period_selector: the values of the index menu
period_menu_values(period_type, year) ==
    IF period_type = "weekly" THEN 1..get_max_weeks_in_year(year)
    ELSE IF period_type = "biweekly" THEN 1..((get_max_weeks_in_year(year) + 1) \div 2)
    ELSE IF period_type = "quarterly" THEN 1..4
    ELSE 1..12

\* PeriodSelectorWidget.__init__ with an initial period
PeriodSelector(period) == [period_type |-> period.type, current_period |-> period]

InitPeriods ==
    /\ data = initial_data
    /\ call = NoCall
    /\ kidIn = <<>>
    /\ totalsOut = <<>>
    /\ \E period_type \in PeriodTypes, year \in Years :
          \E idx \in period_menu_values(period_type, year) :
             selector = PeriodSelector(Period(period_type, year, idx))

\* PeriodSelectorWidget._navigate: the previous / next button
NavigatePeriod(direction) ==
    /\ selector.current_period.year \in Years
    /\ LET period == selector.current_period
           moved == navigate_period(period, direction)
       IN  /\ selector' = [selector EXCEPT !.current_period = moved]
           /\ call' = [op |-> "navigate_period", period |-> period,
                       direction |-> direction, out |-> moved]
    /\ UNCHANGED <<data, kidIn, totalsOut>>

\* PeriodSelectorWidget.get_period_key, and the key read back as
\* EditEntryDialog reads an entry's key for its selector
PeriodKey ==
    /\ LET period == selector.current_period
           key == get_period_key(period)
       IN  call' = [op |-> "get_period_key", period |-> period,
                    key |-> key, out |-> parse_period_key(key)]
    /\ UNCHANGED <<data, kidIn, totalsOut, selector>>

\* PeriodSelectorWidget._get_display_text: the dates shown for the period
PeriodDates ==
    /\ LET period == selector.current_period
       IN  call' = [op |-> "period_dates", period |-> period, out |-> period_dates(period)]
    /\ UNCHANGED <<data, kidIn, totalsOut, selector>>

NextPeriods ==
    \/ \E direction \in {1, 0 - 1} : NavigatePeriod(direction)
    \/ PeriodKey
    \/ PeriodDates

SpecPeriods == InitPeriods /\ [][NextPeriods]_vars

\* the last index of a type in a year, as the period calendar defines it
LastIndex(period_type, year) ==
    LET maxWeeksInYear == iso_week(year, 12, 28)
    IN  IF period_type = "weekly" THEN maxWeeksInYear
        ELSE IF period_type = "biweekly" THEN (maxWeeksInYear + 1) \div 2
        ELSE IF period_type = "quarterly" THEN 4
        ELSE 12

ValidPeriod(period) ==
    /\ period.type \in PeriodTypes
    /\ period.idx \in 1..LastIndex(period.type, period.year)

\* C12: for every valid period, one step forward and then one step backward
\* returns the period, also when the forward step crosses into the next year
C12_ForwardThenBackward ==
    [][ (call'.op = "navigate_period" /\ call'.direction = 1 /\ ValidPeriod(call'.period))
            => navigate_period(call'.out, 0 - 1) = call'.period ]_vars

C12_Witness ==
    /\ call.op = "navigate_period"
    /\ call.direction = 1
    /\ call.period = Period("weekly", 2020, 53)
    /\ call.out.year = 2021

\* C13: for every valid period and direction +1 or -1, navigate_period gives
\* a valid period of the same type: the index moves by the direction within
\* the year, past the year's last index it is index 1 of the next year, below
\* 1 it is the last index of the year before; the last week of a year is the
\* ISO week of its 28 December, 52 or 53
C13_NavigateStaysValid ==
    [][ (call'.op = "navigate_period" /\ ValidPeriod(call'.period)) =>
            LET p == call'.period
                q == call'.out
                idx == p.idx + call'.direction
            IN  /\ iso_week(p.year, 12, 28) \in {52, 53}
                /\ q.type = p.type
                /\ ValidPeriod(q)
                /\ q = IF idx > LastIndex(p.type, p.year) THEN Period(p.type, p.year + 1, 1)
                       ELSE IF idx < 1 THEN Period(p.type, p.year - 1, LastIndex(p.type, p.year - 1))
                       ELSE Period(p.type, p.year, idx) ]_vars

C13_Witness ==
    /\ call.op = "navigate_period"
    /\ call.direction = 0 - 1
    /\ call.period = Period("biweekly", 2021, 1)
    /\ call.out = Period("biweekly", 2020, 27)

\* C14: for every valid period of every type, parsing the key written for it
\* gives the period back, with the same type, year and index; no key of one
\* type is read as a period of another type
C14_KeyRoundTrip ==
    (call.op = "get_period_key" /\ ValidPeriod(call.period)) =>
        /\ call.out.ok
        /\ call.out.period.type = call.period.type
        /\ call.out.period = call.period
        /\ parse_period_key(get_period_key(call.period)) = Parsed(call.period)

C14_Witness ==
    /\ call.op = "get_period_key"
    /\ call.period = Period("biweekly", 2020, 27)
    /\ call.key = <<"2", "0", "2", "0", "-", "B", "W", "2", "7">>
    /\ call.out = Parsed(call.period)

\* the valid periods of one type in the years the walk reaches
PeriodsOfType(period_type) ==
    { period \in [type : {period_type}, year : (FirstYear - 1)..(LastYear + 1), idx : 1..53] :
        ValidPeriod(period) }

Earlier(p, q) == p.year < q.year \/ (p.year = q.year /\ p.idx < q.idx)

\* C16: for two valid periods of the same type with 4-digit years, the key of
\* one is below the key of the other in string order exactly when the period
\* is chronologically earlier, and the keys are equal exactly when the
\* periods are; so the sort of _calculate_totals puts two entries of one
\* type in chronological order
C16_KeyOrderIsChronological ==
    (call.op = "get_period_key" /\ ValidPeriod(call.period)) =>
        \A q \in PeriodsOfType(call.period.type) :
            LET p == call.period
                kp == call.key
                kq == get_period_key(q)
                folded == sorted_entries(<<[period |-> kq], [period |-> kp]>>)
            IN  /\ Len(Dec(p.year)) = 4 /\ Len(Dec(q.year)) = 4
                /\ StrLess(kp, kq) <=> Earlier(p, q)
                /\ kp = kq <=> p = q
                /\ Earlier(p, q) => folded = <<[period |-> kp], [period |-> kq]>>
                /\ Earlier(q, p) => folded = <<[period |-> kq], [period |-> kp]>>

C16_Witness ==
    /\ call.op = "get_period_key"
    /\ call.period = Period("weekly", 2020, 9)
    /\ StrLess(call.key, get_period_key(Period("weekly", 2020, 10)))
    /\ Period("weekly", 2020, 10) \in PeriodsOfType("weekly")

\* C17: the dates of a weekly period start on a Monday and end on the Sunday
\* six days later, week 1 of a year is the week containing its 4 January,
\* and the dates of the next weekly period start on the day after the
\* period's dates end, also across the year boundary
C17_WeeksAreIsoWeeks ==
    (call.op = "period_dates" /\ call.period.type = "weekly" /\ ValidPeriod(call.period)) =>
        LET p == call.period
            start_date == call.out[1]
            end_date == call.out[2]
            week_1 == period_dates(Period("weekly", p.year, 1))
            following == period_dates(navigate_period(p, 1))
        IN  /\ weekday(start_date) = 0
            /\ weekday(end_date) = 6
            /\ end_date = start_date + 6
            /\ week_1[1] <= ymd2ord(p.year, 1, 4) /\ ymd2ord(p.year, 1, 4) <= week_1[2]
            /\ start_date = week_1[1] + 7 * (p.idx - 1)
            /\ following[1] = end_date + 1

C17_Witness ==
    /\ call.op = "period_dates"
    /\ call.period = Period("weekly", 2020, 53)
    /\ call.out = <<ymd2ord(2020, 12, 28), ymd2ord(2021, 1, 3)>>
    /\ period_dates(navigate_period(call.period, 1))[1] = ymd2ord(2021, 1, 4)

\* the Monday of ISO week `week` of `year`, from the calendar
IsoWeekStart(week, year) == isoweek1monday(year) + 7 * (week - 1)

\* C18: the dates of a biweekly period (y, b) cover ISO weeks 2b-1 and 2b of
\* year y, except that the final biweek of a 53-week year covers ISO week 53
\* only; the dates of the next biweekly period start on the day after the
\* period's dates end, also across the year boundary
C18_BiweeksAreWeekPairs ==
    (call.op = "period_dates" /\ call.period.type = "biweekly" /\ ValidPeriod(call.period)) =>
        LET p == call.period
            first_week == 2 * p.idx - 1
            last_week == Min({2 * p.idx, iso_week(p.year, 12, 28)})
            following == period_dates(navigate_period(p, 1))
        IN  /\ call.out[1] = IsoWeekStart(first_week, p.year)
            /\ call.out[2] = IsoWeekStart(last_week, p.year) + 6
            /\ following[1] = call.out[2] + 1

\* the number of days of a month as the calendar has it
LastDay(year, month) ==
    IF month \in {1, 3, 5, 7, 8, 10, 12} THEN 31
    ELSE IF month \in {4, 6, 9, 11} THEN 30
    ELSE IF year % 4 = 0 /\ (year % 100 # 0 \/ year % 400 = 0) THEN 29
    ELSE 28

\* the days of the year's months before `month`
RECURSIVE DaysOfMonthsBefore(_, _)
DaysOfMonthsBefore(year, month) ==
    IF month = 1 THEN 0 ELSE DaysOfMonthsBefore(year, month - 1) + LastDay(year, month - 1)

\* the days of a date range
Days(range) == range[1]..range[2]

\* C19: the dates of a monthly period run from day 1 of the month to its last
\* day, 29 February exactly in leap years; the dates of a quarterly period
\* run from the first day of month 3q-2 to the last day of month 3q, December
\* and the fourth quarter included; a quarter's dates are exactly the union
\* of the dates of its three months
C19_MonthsAndQuarters ==
    /\ (call.op = "period_dates" /\ call.period.type = "monthly" /\ ValidPeriod(call.period)) =>
            LET y == call.period.year
                m == call.period.idx
            IN  /\ call.out[1] = ymd2ord(y, 1, 1) + DaysOfMonthsBefore(y, m)
                /\ m = 1 => call.out[1] = get_month_dates(12, y - 1)[2] + 1
                /\ m > 1 => call.out[1] = get_month_dates(m - 1, y)[2] + 1
                /\ call.out[2] = call.out[1] + LastDay(y, m) - 1
    /\ (call.op = "period_dates" /\ call.period.type = "quarterly" /\ ValidPeriod(call.period)) =>
            LET y == call.period.year
                q == call.period.idx
            IN  /\ call.out[1] = get_month_dates(3 * q - 2, y)[1]
                /\ call.out[2] = get_month_dates(3 * q, y)[2]
                /\ Days(call.out) = Days(get_month_dates(3 * q - 2, y))
                                        \cup Days(get_month_dates(3 * q - 1, y))
                                        \cup Days(get_month_dates(3 * q, y))
                /\ Cardinality(Days(call.out)) =
                       LastDay(y, 3 * q - 2) + LastDay(y, 3 * q - 1) + LastDay(y, 3 * q)

C19_Witness ==
    /\ call.op = "period_dates"
    /\ call.period = Period("monthly", 2020, 2)
    /\ call.out = <<ymd2ord(2020, 2, 1), ymd2ord(2020, 2, 29)>>
    /\ get_quarter_dates(4, 2020) = <<ymd2ord(2020, 10, 1), ymd2ord(2020, 12, 31)>>

---------------------------------------------------------------------------
(* The current period: a selector created without an initial period, or
   switched to another type, takes get_current_period of datetime.now().
   The day is any day of the window of years. *)

\* datetime.now(), its date
Clock(year, month, day) == [op |-> "now", now |-> <<year, month, day>>]

InitNow ==
    /\ data = initial_data
    /\ kidIn = <<>>
    /\ totalsOut = <<>>
    /\ selector = NoSelector
    /\ \E year \in Years, month \in 1..12 :
          \E day \in 1..days_in_month(year, month) : call = Clock(year, month, day)

\* PeriodSelectorWidget.__init__ / _on_type_change: the current period of the
\* type, and the dates displayed for it
CurrentPeriod(period_type) ==
    /\ LET now == call.now
           period == get_current_period(period_type, now[1], now[2], now[3])
       IN  /\ selector' = PeriodSelector(period)
           /\ call' = [op |-> "get_current_period", now |-> now, period_type |-> period_type,
                       out |-> period, dates |-> period_dates(period)]
    /\ UNCHANGED <<data, kidIn, totalsOut>>

NextNow == \E period_type \in PeriodTypes : CurrentPeriod(period_type)

SpecNow == InitNow /\ [][NextNow]_vars

\* C15: for every day and every period type, the current period is a valid
\* period whose dates contain the day, the days around 1 January that belong
\* to an ISO week of the neighbouring calendar year included
C15_CurrentPeriodContainsNow ==
    call.op = "get_current_period" =>
        LET today == ymd2ord(call.now[1], call.now[2], call.now[3])
        IN  /\ call.out.type = call.period_type
            /\ ValidPeriod(call.out)
            /\ call.dates[1] <= today
            /\ today <= call.dates[2]

---------------------------------------------------------------------------
(* Reading a stored key: the edit dialog parses the period string of the
   entry it opens.  The string comes from the data file; it is a key as
   get_period_key writes it, or such a key with one character replaced,
   inserted or removed. *)

KeyAlphabet == {"-", "0", "5", "W", "B", "Q", "X", " ", "_", "+"}

BaseKeys ==
    { get_period_key(period) :
        period \in {Period("weekly", 2024, 5), Period("biweekly", 2024, 12),
                    Period("quarterly", 2024, 3), Period("monthly", 2024, 11)} }

Edits(s) ==
    {s}
    \cup { [s EXCEPT ![i] = c] : i \in 1..Len(s), c \in KeyAlphabet }
    \cup { SubSeq(s, 1, i) \o <<c>> \o SubSeq(s, i + 1, Len(s)) : i \in 0..Len(s), c \in KeyAlphabet }
    \cup { SubSeq(s, 1, i - 1) \o SubSeq(s, i + 1, Len(s)) : i \in 1..Len(s) }

StoredKeys == UNION { Edits(key) : key \in BaseKeys }

InitParse ==
    /\ data = initial_data
    /\ kidIn = <<>>
    /\ totalsOut = <<>>
    /\ selector = NoSelector
    /\ \E key \in StoredKeys : call = [op |-> "entry", period |-> key]

\* EditEntryDialog: parse_period_key of the entry's period, and the selector
\* created on the parsed period; a ValueError leaves no selector
ParsePeriodKey ==
    /\ call.op = "entry"
    /\ LET out == parse_period_key(call.period)
       IN  /\ call' = [op |-> "parse_period_key", period_key |-> call.period, out |-> out]
           /\ selector' = IF out.ok THEN PeriodSelector(out.period) ELSE selector
    /\ UNCHANGED <<data, kidIn, totalsOut>>

NextParse == ParsePeriodKey

SpecParse == InitParse /\ [][NextParse]_vars

AllDigits(s) == s # <<>> /\ \A i \in DOMAIN s : IsDigit(s[i])

KeySeparators == {<<"-", "W">>, <<"-", "B", "W">>, <<"-", "Q">>, <<"-">>}

\* the four key shapes YYYY-Wnn, YYYY-BWnn, YYYY-Qn, YYYY-mm, read generously:
\* digits, one of the four separators, digits, whatever the number of digits
HasKeyShape(s) ==
    \E i \in 1..Len(s), sep \in KeySeparators :
        /\ AllDigits(SubSeq(s, 1, i))
        /\ OccursAt(s, sep, i + 1)
        /\ AllDigits(SubSeq(s, i + 1 + Len(sep), Len(s)))

\* C20: parse_period_key fails with an error, and returns no period, for
\* every string that does not have one of the four key shapes
C20_MalformedKeyFails ==
    (call.op = "parse_period_key" /\ ~HasKeyShape(call.period_key)) =>
        /\ ~call.out.ok
        /\ selector = NoSelector

---------------------------------------------------------------------------
(* The frame of the entry operations, under Spec *)

\* C21: a successful update_entry sets the entry's amount, three percentages,
\* interestRate, usedFromSaved, period key and periodType to the values
\* given, recomputes spent, saved and given from the new amount and
\* percentages, and leaves the entry's id and createdAt and every other entry
\* of the kid unchanged
C21_UpdateSetsGivenValues ==
    [][ (call'.op = "update_entry" /\ call'.ok) =>
            LET before == EntriesOf(data, call'.kid_id)
                after == EntriesOf(data', call'.kid_id)
                a == UpdateArgs
            IN  /\ Len(after) = Len(before)
                /\ \A j \in DOMAIN before :
                      IF before[j].id # call'.entry_id THEN after[j] = before[j]
                      ELSE /\ after[j].id = before[j].id
                           /\ after[j].createdAt = before[j].createdAt
                           /\ after[j].amount = a.amount
                           /\ after[j].spentPercent = a.spent
                           /\ after[j].savedPercent = a.saved
                           /\ after[j].givenPercent = a.given
                           /\ after[j].interestRate = a.rate
                           /\ after[j].usedFromSaved = a.used
                           /\ after[j].spent = Round2(PctOf(a.amount, a.spent))
                           /\ after[j].saved = Round2(PctOf(a.amount, a.saved))
                           /\ after[j].given = Round2(PctOf(a.amount, a.given))
                           /\ call'.period # NoPeriod => after[j].period = call'.period
                           /\ call'.period_type # NoType => after[j].periodType = call'.period_type ]_vars

---------------------------------------------------------------------------
(* The ledger the details view leaves behind, under SpecUI *)

\* C23: after any sequence of add, edit and delete operations the details
\* view accepts, the running saved balance annotated at every entry of the
\* fold, and hence totalSaved, is >= 0 (stated for ledgers of finite numbers)
C23_BalanceNeverNegative ==
    FiniteLedger(data) =>
        LET kid == get_kid(data, ViewKid)
        IN  /\ \A j \in DOMAIN kid.entries : kid.entries[j].runningSaved >= 0
            /\ kid.totals.totalSaved >= 0

---------------------------------------------------------------------------
(* The period selector as a widget: its period type, its current period and
   the values its index menu offers.  The menu is filled when the widget is
   built and when the year is changed; the selector is used on one day. *)

\* range(current_year - 5, current_year + 3): the years of the year menu
YearsBack == 5
YearsAhead == 2
year_menu_values(now) == (now[1] - YearsBack)..(now[1] + YearsAhead)

\* the days the selector is used on
Clocks == {<<2020, 6, 15>>, <<2021, 1, 1>>}

\* PeriodSelectorWidget._create_widgets: the widget on a period, its menus filled
SelectorWidget(period_type, period, now) ==
    [period_type |-> period_type,
     current_period |-> period,
     values |-> period_menu_values(period_type, period.year),
     now |-> now]

SelectorCall(op, value) == [op |-> op, value |-> value]

InitSelector ==
    /\ data = initial_data
    /\ call = NoCall
    /\ kidIn = <<>>
    /\ totalsOut = <<>>
    /\ \E now \in Clocks, period_type \in PeriodTypes :
          \E year \in year_menu_values(now) :
             \E idx \in period_menu_values(period_type, year) :
                selector = SelectorWidget(period_type, Period(period_type, year, idx), now)

\* PeriodSelectorWidget._navigate, while the year is one the year menu shows
SelectorNavigate(direction) ==
    /\ selector.current_period.year \in year_menu_values(selector.now)
    /\ selector' = [selector EXCEPT !.current_period = navigate_period(@, direction)]
    /\ call' = SelectorCall("_navigate", direction)
    /\ UNCHANGED <<data, kidIn, totalsOut>>

\* PeriodSelectorWidget._on_year_change
SelectorYearChange(value) ==
    /\ LET period == selector.current_period
           max_weeks == get_max_weeks_in_year(value)
           max_biweeks == (get_max_weeks_in_year(value) + 1) \div 2
       IN  selector' =
              IF selector.period_type = "weekly"
              THEN [selector EXCEPT !.current_period = Period(period.type, value, IF period.idx > max_weeks THEN max_weeks ELSE period.idx),
                                    !.values = 1..max_weeks]
              ELSE IF selector.period_type = "biweekly"
              THEN [selector EXCEPT !.current_period = Period(period.type, value, IF period.idx > max_biweeks THEN max_biweeks ELSE period.idx),
                                    !.values = 1..max_biweeks]
              ELSE [selector EXCEPT !.current_period = Period(period.type, value, period.idx)]
    /\ call' = SelectorCall("_on_year_change", value)
    /\ UNCHANGED <<data, kidIn, totalsOut>>

\* PeriodSelectorWidget._on_period_select: a value of the index menu is chosen
SelectorPeriodSelect(value) ==
    /\ selector' = [selector EXCEPT !.current_period = Period(@.type, @.year, value)]
    /\ call' = SelectorCall("_on_period_select", value)
    /\ UNCHANGED <<data, kidIn, totalsOut>>

\* PeriodSelectorWidget._on_type_change: the current period of the new type,
\* and the widgets built again
SelectorTypeChange(value) ==
    /\ LET now == selector.now
       IN  selector' = SelectorWidget(value, get_current_period(value, now[1], now[2], now[3]), now)
    /\ call' = SelectorCall("_on_type_change", value)
    /\ UNCHANGED <<data, kidIn, totalsOut>>

NextSelector ==
    \/ \E direction \in {1, 0 - 1} : SelectorNavigate(direction)
    \/ \E value \in year_menu_values(selector.now) : SelectorYearChange(value)
    \/ \E value \in selector.values : SelectorPeriodSelect(value)
    \/ \E value \in PeriodTypes : SelectorTypeChange(value)

SpecSelector == InitSelector /\ [][NextSelector]_vars

\* C24: after any sequence of selector actions starting from a valid period,
\* the selector's current period is valid for its year and of the
\* selector's type
C24_SelectorStaysValid ==
    /\ selector.current_period.type = selector.period_type
    /\ ValidPeriod(selector.current_period)

---------------------------------------------------------------------------
(* SpecMixed: _calculate_totals applied to a kid whose entries are of
   different period types *)

\* most entries of the mixed ledger
MaxMixed == 4

\* a period of each type in one year, the monthly one the last of the year,
\* and a month of the next year
MixedPeriods ==
    {Period("monthly", 2024, 12), Period("biweekly", 2024, 1), Period("quarterly", 2024, 1),
     Period("weekly", 2024, 1), Period("monthly", 2025, 1)}

\* each entry saves 100.00 and withdraws nothing
MixedRates == {0, 50}

InitMixed ==
    /\ data = initial_data
    /\ call = NoCall
    /\ totalsOut = <<>>
    /\ selector = NoSelector
    /\ \E n \in 0..MaxMixed :
        \E ps \in [1..n -> MixedPeriods], ra \in [1..n -> MixedRates] :
            /\ DistinctPeriods(n, ps)
            /\ kidIn = FoldKid(n, ps, [i \in 1..n |-> Eur(100, 0)], [i \in 1..n |-> <<0, 100, 0>>],
                               ra, [i \in 1..n |-> 0])

SpecMixed == InitMixed /\ [][NextTotals]_vars

\* the place of a period type in the string order of the keys of one year
TypeRank(period_type) ==
    CASE period_type = "monthly" -> 1
      [] period_type = "biweekly" -> 2
      [] period_type = "quarterly" -> 3
      [] period_type = "weekly" -> 4

\* the year a key starts with
KeyYear(key) == SubSeq(key, 1, 4)

\* C25: for a kid holding entries of different period types, the fold takes
\* them in the string order of their keys whatever the type, so that within
\* a year every monthly key comes before every biweekly key, that before
\* every quarterly key and that before every weekly key; running balances
\* and interest are those of that order, also where it is not chronological
C25_MixedTypesFoldInKeyOrder ==
    totalsOut # <<>> =>
        LET es == totalsOut[1].entries
            n == Len(es)
        IN  /\ n = Len(kidIn.entries)
            /\ \A i, j \in 1..n : i < j =>
                  /\ StrLess(es[i].period, es[j].period)
                  /\ KeyYear(es[i].period) = KeyYear(es[j].period)
                        => TypeRank(es[i].periodType) < TypeRank(es[j].periodType)
            /\ \A i \in 1..n :
                  /\ es[i].interestEarned = Round2(C6_Interest(es, i))
                  /\ es[i].runningSaved = Round2(C6_Balance(es, i))

\* December 2024 was folded first and the first week of 2024 last of the
\* year, the week earning interest on the savings of December
C25_Witness ==
    /\ totalsOut # <<>>
    /\ Len(totalsOut[1].entries) = 4
    /\ totalsOut[1].entries[1].period = get_period_key(Period("monthly", 2024, 12))
    /\ totalsOut[1].entries[2].periodType = "biweekly"
    /\ totalsOut[1].entries[3].periodType = "quarterly"
    /\ totalsOut[1].entries[4].period = get_period_key(Period("weekly", 2024, 1))
    /\ totalsOut[1].entries[4].interestEarned > 0

---------------------------------------------------------------------------
(* The stored order of the entries, under SpecTotals *)

\* the orders in which n entries can be stored
Orders(n) == {f \in [1..n -> 1..n] : \A a, b \in 1..n : a # b => f[a] # f[b]}

\* C26: the result of _calculate_totals depends only on the set of a kid's
\* entries, not on the order in which they are stored: the same entries
\* (distinct period keys) in any other order give the same aggregate totals
\* and the same annotated sequence
C26_StoredOrderIsIrrelevant ==
    totalsOut # <<>> =>
        \A order \in Orders(Len(kidIn.entries)) :
            LET reordered == [i \in 1..Len(kidIn.entries) |-> kidIn.entries[order[i]]]
            IN  calculate_totals([kidIn EXCEPT !.entries = reordered]) = totalsOut[1]

\* three entries stored in descending key order were folded and interest
\* was earned
C26_Witness ==
    /\ totalsOut # <<>>
    /\ Len(kidIn.entries) = 3
    /\ StrLess(kidIn.entries[2].period, kidIn.entries[1].period)
    /\ StrLess(kidIn.entries[3].period, kidIn.entries[2].period)
    /\ totalsOut[1].totalInterest > 0
    /\ totalsOut[1].totalUsedFromSaved > 0

---------------------------------------------------------------------------
(* The default allocation, under SpecUI *)

\* C27: changing a kid's default allocation or default interest rate leaves
\* the stored entries and the totals of the kid's existing entries unchanged;
\* an entry added afterwards takes the defaults of the time it is added, and
\* the entries stored before it keep their own split and rate
C27_AllocationLeavesEntries ==
    [][ /\ call'.op = "allocation" =>
            /\ ViewedKid(data').entries = ViewedKid(data).entries
            /\ calculate_totals(ViewedKid(data')) = calculate_totals(ViewedKid(data))
            /\ call'.err = "ok" =>
                  /\ ViewedKid(data').allocation =
                        [spent |-> call'.split[1], saved |-> call'.split[2], given |-> call'.split[3]]
                  /\ ViewedKid(data').interestRate = call'.rate
        /\ (call'.op = "add" /\ call'.err = "ok") =>
            LET before == ViewedKid(data).entries
                after == ViewedKid(data').entries
                added == after[Len(after)]
            IN  /\ SubSeq(after, 1, Len(before)) = before
                /\ added.spentPercent = ViewedKid(data).allocation.spent
                /\ added.savedPercent = ViewedKid(data).allocation.saved
                /\ added.givenPercent = ViewedKid(data).allocation.given
                /\ added.interestRate = ViewedKid(data).interestRate ]_vars

\* the defaults have just been changed for a kid who holds an entry stored
\* with another split and another rate
C27_Witness ==
    /\ call.op = "allocation"
    /\ call.err = "ok"
    /\ Len(ViewedKid(data).entries) > 0
    /\ ViewedKid(data).entries[1].interestRate # ViewedKid(data).interestRate
    /\ ViewedKid(data).entries[1].savedPercent # ViewedKid(data).allocation.saved
    /\ ViewedKid(data).entries[1].saved > 0

---------------------------------------------------------------------------
(* SpecWriters: two DataManager objects on one data file.  An entry operation
   is _load_data, the change in memory, and _save_data, which opens the file
   for writing (emptying it) and dumps the whole dataset.  The steps of the
   two writers interleave freely. *)

\* operations each writer makes at most
MaxWrites == 2

Writers == {1, 2}

\* the file while a dump is incomplete, or after two dumps ran into each other
Unparsable == [partial |-> TRUE]

\* json.load of the file; a JSONDecodeError gives the empty dataset
parse_file(file) == IF file = Unparsable THEN initial_data ELSE file

\* the mutant of _save_data: the dump does not reach the file
save_data_lost(file, d) == parse_file(file)

\* DataManager._save_data: the file holds the dataset dumped, whatever it held
save_data(file, d) == d

Idle(done) == [pc |-> "idle", done |-> done]

\* a writer between its _load_data and the end of its _save_data
Busy(pc, done, op, entry_id, out, clash) ==
    [pc |-> pc, done |-> done, op |-> op, entry_id |-> entry_id, out |-> out, clash |-> clash]

\* acked: the ids of the entries whose add_entry returned the entry and whose
\* delete_entry has not returned True; overlapped: some operation started
\* while the other writer was inside one
WritersCall(writers, acked, issued, overlapped) ==
    [op |-> "writers", writers |-> writers, acked |-> acked, issued |-> issued, overlapped |-> overlapped]

OthersBusy(w) == \E o \in Writers \ {w} : call.writers[o].pc # "idle"
OthersWriting(w) == \E o \in Writers \ {w} : call.writers[o].pc = "writing"

InitWriters ==
    /\ data = one_kid
    /\ call = WritersCall([w \in Writers |-> Idle(0)], {}, 0, FALSE)
    /\ kidIn = <<>>
    /\ totalsOut = <<>>
    /\ selector = NoSelector

\* what the operation does to the dataset the writer loaded
WriterOutcome(local, op, entry_id, period, new_id) ==
    IF op = "add_entry"
    THEN add_entry(local, ViewKid, period, "monthly", AddArgs.amount, AddArgs.rate, AddArgs.spent, AddArgs.saved, AddArgs.given, AddArgs.used, new_id)
    ELSE IF op = "update_entry"
    THEN update_entry(local, ViewKid, entry_id, UpdateArgs.amount, UpdateArgs.spent, UpdateArgs.saved, UpdateArgs.given, UpdateArgs.rate, UpdateArgs.used, NoPeriod, NoType)
    ELSE delete_entry(local, ViewKid, entry_id)

\* data = self._load_data() and the change in memory; an operation that
\* fails returns here
WriterLoad(w) ==
    /\ call.writers[w].pc = "idle"
    /\ call.writers[w].done < MaxWrites
    /\ LET local == load_data(parse_file(data), <<>>)
           new_id == call.issued + 1
       IN  \E op \in EntryOps, entry_id \in EntryIds(local) \cup {0}, period \in {get_period_key(p) : p \in UiPeriods} :
              /\ op = "add_entry" <=> entry_id = 0
              /\ op # "add_entry" => period = get_period_key(Month(2024, 1))
              /\ LET out == WriterOutcome(local, op, entry_id, period, new_id)
                     id == IF op = "add_entry" THEN new_id ELSE entry_id
                 IN  call' = WritersCall(
                        [call.writers EXCEPT ![w] =
                            IF out.wrote THEN Busy("loaded", @.done, op, id, out, FALSE)
                            ELSE Idle(@.done + 1)],
                        call.acked,
                        IF op = "add_entry" THEN new_id ELSE call.issued,
                        call.overlapped \/ OthersBusy(w))
    /\ UNCHANGED <<data, kidIn, totalsOut, selector>>

\* open(self.data_file, 'w'): the file is emptied
WriterOpen(w) ==
    /\ call.writers[w].pc = "loaded"
    /\ data' = Unparsable
    /\ call' = [call EXCEPT !.writers =
                   [o \in Writers |->
                       IF o = w THEN [call.writers[o] EXCEPT !.pc = "writing", !.clash = OthersWriting(w)]
                       ELSE IF call.writers[o].pc = "writing" THEN [call.writers[o] EXCEPT !.clash = TRUE]
                       ELSE call.writers[o]]]
    /\ UNCHANGED <<kidIn, totalsOut, selector>>

\* json.dump and the close of the file, and the return of the operation; two
\* dumps that ran into each other may leave a file that does not parse
WriterClose(w) ==
    /\ call.writers[w].pc = "writing"
    /\ LET me == call.writers[w]
       IN  /\ \/ data' = save_data(data, me.out.data)
              \/ me.clash /\ data' = Unparsable
           /\ call' = [call EXCEPT
                         !.writers[w] = Idle(me.done + 1),
                         !.acked = IF me.op = "add_entry" THEN @ \cup {me.entry_id}
                                   ELSE IF me.op = "delete_entry" THEN @ \ {me.entry_id}
                                   ELSE @]
    /\ UNCHANGED <<kidIn, totalsOut, selector>>

NextWriters == \E w \in Writers : WriterLoad(w) \/ WriterOpen(w) \/ WriterClose(w)

SpecWriters == InitWriters /\ [][NextWriters]_vars

\* C28: with a single writer, every add_entry, update_entry or delete_entry
\* that reports success is reflected in the dataset the next load returns,
\* and every entry whose add was reported is there until it is deleted; this
\* is stated only for runs in which no operation started while the other
\* writer was inside one
C28_SingleWriterDurable ==
    [][ \A w \in Writers :
          (call.writers[w].pc = "writing" /\ call'.writers[w].pc = "idle" /\ ~call'.overlapped) =>
             LET me == call.writers[w]
                 loaded == parse_file(data')
                 es == EntriesOf(loaded, ViewKid)
             IN  /\ data' # Unparsable
                 /\ me.op = "add_entry" => \E j \in DOMAIN es : es[j] = me.out.entry[1]
                 /\ me.op = "update_entry" =>
                       \E j \in DOMAIN es : /\ es[j].id = me.entry_id
                                            /\ es[j].amount = UpdateArgs.amount
                                            /\ es[j].usedFromSaved = UpdateArgs.used
                 /\ me.op = "delete_entry" => me.entry_id \notin EntryIds(loaded)
                 /\ call'.acked \subseteq EntryIds(loaded) ]_vars

\* two adds whose load and save steps interleaved both returned their entry,
\* both writers are done, and the file holds one of the two entries only
C28_Witness ==
    /\ call.overlapped
    /\ \A w \in Writers : call.writers[w].pc = "idle"
    /\ data # Unparsable
    /\ Cardinality(call.acked) = 2
    /\ Cardinality(EntryIds(data)) = 1
    /\ EntryIds(data) \subseteq call.acked

---------------------------------------------------------------------------
(* Withdrawals without interest, under SpecTotals *)

\* the sum of a field over the first i entries
RECURSIVE SumOf(_, _, _)
SumOf(entries, field, i) == IF i = 0 THEN 0 ELSE SumOf(entries, field, i - 1) + entries[i][field]

\* C29: when every entry's interestRate is 0, grandTotal is the sum over the
\* kid's entries of spent + saved + given whatever the usedFromSaved values
\* are: a withdrawal moves money from the saved total to the reported spent
\* total without changing the grand total
C29_WithdrawalsKeepGrandTotal ==
    (totalsOut # <<>> /\ \A j \in DOMAIN kidIn.entries : kidIn.entries[j].interestRate = 0) =>
        LET es == kidIn.entries
            n == Len(es)
            t == totalsOut[1]
        IN  /\ t.grandTotal = SumOf(es, "spent", n) + SumOf(es, "saved", n) + SumOf(es, "given", n)
            /\ t.totalSpent = SumOf(es, "spent", n) + SumOf(es, "usedFromSaved", n)
            /\ t.totalSaved = SumOf(es, "saved", n) - SumOf(es, "usedFromSaved", n)
            /\ t.totalGiven = SumOf(es, "given", n)

\* three entries without interest were folded, with withdrawals above what
\* had been saved
C29_Witness ==
    /\ totalsOut # <<>>
    /\ Len(kidIn.entries) = 3
    /\ \A j \in DOMAIN kidIn.entries : kidIn.entries[j].interestRate = 0
    /\ totalsOut[1].totalUsedFromSaved > 0
    /\ totalsOut[1].totalSaved < 0
    /\ totalsOut[1].grandTotal > 0

---------------------------------------------------------------------------
(* The other kids, under Spec *)

\* C30: add_entry, update_entry and delete_entry addressed to one kid leave
\* the settings, the list of kids, every other kid's whole record and the
\* addressed kid's own id, name, allocation and interest rate as they were,
\* whether the call returns a success or a failure; and an add_entry for a
\* period the addressed kid does not hold succeeds whatever the other kids
\* hold, so two kids may hold the same period key.
C30_OtherKidsUntouched ==
    [][call'.op \in EntryOps =>
        /\ data'.settings = data.settings
        /\ Len(data'.kids) = Len(data.kids)
        /\ \A i \in DOMAIN data.kids :
            /\ data'.kids[i].id = data.kids[i].id
            /\ data'.kids[i].name = data.kids[i].name
            /\ data'.kids[i].allocation = data.kids[i].allocation
            /\ data'.kids[i].interestRate = data.kids[i].interestRate
            /\ data.kids[i].id # call'.kid_id => data'.kids[i] = data.kids[i]
        /\ (/\ call'.op = "add_entry"
            /\ KidsWithId(data, call'.kid_id) # {}
            /\ \A j \in DOMAIN EntriesOf(data, call'.kid_id) :
                    EntriesOf(data, call'.kid_id)[j].period # call'.period)
           => call'.ok
    ]_vars

\* an add_entry has just succeeded for a period the other kid holds too
C30_Witness ==
    /\ call.op = "add_entry"
    /\ call.ok
    /\ \E i \in DOMAIN data.kids :
        /\ data.kids[i].id # call.kid_id
        /\ \E j \in DOMAIN data.kids[i].entries : data.kids[i].entries[j].period = call.period

====
